---- MODULE Spec2Model ----
(***************************************************************************)
(* Game Boy (DMG) emulation core: CPU step and interrupt dispatch, memory  *)
(* bus, PPU mode machine with the divider/timer, and the Core step that    *)
(* composes them.  Numbers are decimal; the hexadecimal value of the       *)
(* source is given in the comment next to each.                            *)
(***************************************************************************)
EXTENDS Integers, Sequences, FiniteSets, TLC

VARIABLES cpu, bus, ppu, joypad, image, last, steps, hist, cart, audio, apu

vars == <<cpu, bus, ppu, joypad, image, last, steps, hist, cart, audio,
         apu>>

(***************************************************************************)
(* Bounds of the model.                                                    *)
(***************************************************************************)
\* number of Core steps in one behaviour of Spec
MaxSteps == 2
\* number of stores to IE and IF in one behaviour of Spec
MaxWrites == 2
\* number of operations in one behaviour of SpecRegs
MaxRegOps == 4
\* number of operations in one behaviour of SpecBus
MaxBusOps == 4
\* number of end-of-frame signals followed in one behaviour of SpecFrame
MaxFrames == 2
\* number of bus operations in one behaviour of SpecMem
MaxMemOps == 3
\* number of timer operations in one behaviour of SpecTimer
MaxTimerOps == 5
\* number of operations in one behaviour of SpecDiv
MaxDivOps == 14
\* number of cartridge operations in one behaviour of SpecMbc
MaxCartOps == 3
\* length of the shared audio buffer up to which SpecAudio follows the sampler
MaxAudioLen == 4096
\* number of APU ticks in one behaviour of SpecApu
MaxApuTicks == 5

(***************************************************************************)
(* Bit arithmetic on bytes and words.                                      *)
(***************************************************************************)
Pow2(i) == 2 ^ i

Bit(x, i) == (x \div Pow2(i)) % 2

RECURSIVE AndBits(_, _, _)
AndBits(x, y, i) ==
    IF i < 0 THEN 0
    ELSE Bit(x, i) * Bit(y, i) * Pow2(i) + AndBits(x, y, i - 1)

\* x & y on 16-bit operands
BitAnd(x, y) == AndBits(x, y, 15)

\* x with the bits of y removed (bitflags remove)
BitClear(x, y) == x - BitAnd(x, y)

\* x | y
BitOr(x, y) == x + y - BitAnd(x, y)

\* u8 and u16 wrapping arithmetic
W8(x) == x % 256

W16(x) == x % 65536

(***************************************************************************)
(* intf.rs: the interrupt flag set.                                        *)
(***************************************************************************)
V_BLANK == 1

LCD_STAT == 2

TIMER == 4

SERIAL == 8

JOYPAD == 16

\* InterruptFlag::from_bits_truncate: only the five defined bits are kept
from_bits_truncate(value) == BitAnd(value, 31)

highest_prio_bit(flags) ==
    IF BitAnd(flags, V_BLANK) # 0 THEN V_BLANK
    ELSE IF BitAnd(flags, LCD_STAT) # 0 THEN LCD_STAT
    ELSE IF BitAnd(flags, TIMER) # 0 THEN TIMER
    ELSE IF BitAnd(flags, SERIAL) # 0 THEN SERIAL
    ELSE IF BitAnd(flags, JOYPAD) # 0 THEN JOYPAD
    ELSE 0

\* None is modelled as -1
interrupt_starting_address(flags) ==
    LET hp == highest_prio_bit(flags) IN
    CASE hp = V_BLANK -> 64        \* 0x40
      [] hp = LCD_STAT -> 72       \* 0x48
      [] hp = TIMER -> 80          \* 0x50
      [] hp = SERIAL -> 88         \* 0x58
      [] hp = JOYPAD -> 96         \* 0x60
      [] OTHER -> -1

(***************************************************************************)
(* Sparse byte arrays: a function on the cells that differ from the        *)
(* initial fill, which is zero for every array of the program.             *)
(***************************************************************************)
Get(arr, i) == IF i \in DOMAIN arr THEN arr[i] ELSE 0

Put(arr, i, v) == [j \in DOMAIN arr \cup {i} |-> IF j = i THEN v ELSE arr[j]]

Empty == [j \in {} |-> 0]

(***************************************************************************)
(* gpu.rs: the PPU and the divider/timer that lives in the same struct.    *)
(***************************************************************************)
HBlank0 == 0

VBlank1 == 1

OamRead2 == 2

Transfer3 == 3

VRAM_BEGIN == 32768      \* 0x8000

VRAM_END == 40959        \* 0x9fff

VRAM_SIZE == VRAM_END - VRAM_BEGIN + 1

LCD_DISPLAY_ENABLE == 128

\* GPU::new, with Lcdc::new (0b0100_1000) and Stat::new
GPU_new ==
    [ lcdc |-> 72,
      enable_ly_interrupt |-> FALSE,
      enable_m2_interrupt |-> FALSE,
      enable_m1_interrupt |-> FALSE,
      enable_m0_interrupt |-> FALSE,
      mode |-> HBlank0,
      vram |-> Empty,
      oam |-> Empty,
      vram_bank |-> 0,
      scy |-> 0, scx |-> 0, wx |-> 0, wy |-> 0,
      ly |-> 0, lc |-> 0,
      bgp |-> 0, pal0 |-> 0, pal1 |-> 0,
      div |-> 0, tima |-> 0, tma |-> 0, tac |-> 0,
      enable_debug_override |-> FALSE,
      cycles |-> 0, timer_cycles |-> 0, timer_clock |-> 0,
      interrupt_flag |-> 0 ]

lcd_display_enable(p) == BitAnd(p.lcdc, LCD_DISPLAY_ENABLE) # 0

\* LY should be set to 0 when the LCD is off (0x90 with the debug override)
read_ly(p) ==
    IF p.enable_debug_override THEN 144
    ELSE IF ~lcd_display_enable(p) THEN 0
    ELSE p.ly

read_stat_mode(p) == IF ~lcd_display_enable(p) THEN HBlank0 ELSE p.mode

\* the registers write_vram and read_vram decode, apart from VRAM and OAM
GpuRegisters ==
    { 65344, 65345, 65346, 65347, 65348, 65349, 65351, 65352, 65353,
      65354, 65355, 65359, 65284, 65285, 65286, 65287, 65295 }

\* the index into vram; with vram_bank = 1 it lies outside the 8 KiB array
VramIndex(p, address) == BitOr(p.vram_bank * 8192, BitAnd(address, 8191))

\* GPU::read_vram; -1 stands for the panic of an index out of range or of
\* the unreachable!() arm
read_vram(p, address) ==
    CASE address >= VRAM_BEGIN /\ address <= VRAM_END ->
            IF VramIndex(p, address) < VRAM_SIZE
            THEN Get(p.vram, VramIndex(p, address)) ELSE -1
      [] address >= 65024 /\ address <= 65183 -> Get(p.oam, address - 65024)
      [] address = 65344 -> p.lcdc                                \* 0xff40
      [] address = 65345 ->                                       \* 0xff41
            (IF p.enable_ly_interrupt THEN 64 ELSE 0)
          + (IF p.enable_m2_interrupt THEN 32 ELSE 0)
          + (IF p.enable_m1_interrupt THEN 16 ELSE 0)
          + (IF p.enable_m0_interrupt THEN 8 ELSE 0)
          + (IF p.ly = p.lc THEN 4 ELSE 0)
          + read_stat_mode(p)
      [] address = 65346 -> p.scy
      [] address = 65347 -> p.scx
      [] address = 65348 -> read_ly(p)                            \* 0xff44
      [] address = 65349 -> p.lc
      [] address = 65351 -> p.bgp
      [] address = 65352 -> p.pal0
      [] address = 65353 -> p.pal1
      [] address = 65354 -> p.wx
      [] address = 65355 -> p.wy
      [] address = 65359 -> BitOr(p.vram_bank, 254)               \* 0xff4f
      [] address = 65284 -> p.div                                 \* 0xff04
      [] address = 65285 -> p.tima
      [] address = 65286 -> p.tma
      [] address = 65287 -> p.tac
      [] address = 65295 -> p.interrupt_flag                      \* 0xff0f
      [] OTHER -> -1

\* GPU::write_vram; the result is [ppu, aborted]
write_vram(p, address, value) ==
    LET ok(q) == [ppu |-> q, aborted |-> FALSE]
        panic == [ppu |-> p, aborted |-> TRUE]
    IN
    CASE address >= VRAM_BEGIN /\ address <= VRAM_END ->
            IF VramIndex(p, address) < VRAM_SIZE
            THEN ok([p EXCEPT !.vram = Put(@, VramIndex(p, address), value)])
            ELSE panic
      [] address >= 65024 /\ address <= 65183 ->
            ok([p EXCEPT !.oam = Put(@, address - 65024, value)])
      [] address = 65344 -> ok([p EXCEPT !.lcdc = value])
      [] address = 65345 ->
            ok([p EXCEPT !.enable_ly_interrupt = BitAnd(value, 64) # 0,
                         !.enable_m2_interrupt = BitAnd(value, 32) # 0,
                         !.enable_m1_interrupt = BitAnd(value, 16) # 0,
                         !.enable_m0_interrupt = BitAnd(value, 8) # 0])
      [] address = 65346 -> ok([p EXCEPT !.scy = value])
      [] address = 65347 -> ok([p EXCEPT !.scx = value])
      [] address = 65348 -> ok([p EXCEPT !.ly = value])
      [] address = 65349 -> ok([p EXCEPT !.lc = value])
      [] address = 65351 -> ok([p EXCEPT !.bgp = value])
      [] address = 65352 -> ok([p EXCEPT !.pal0 = value])
      [] address = 65353 -> ok([p EXCEPT !.pal1 = value])
      [] address = 65354 -> ok([p EXCEPT !.wx = value])
      [] address = 65355 -> ok([p EXCEPT !.wy = value])
      [] address = 65359 -> ok([p EXCEPT !.vram_bank = BitAnd(value, 1)])
      [] address = 65284 -> ok([p EXCEPT !.div = 0])
      [] address = 65285 -> ok([p EXCEPT !.tima = value])
      [] address = 65286 -> ok([p EXCEPT !.tma = value])
      [] address = 65287 -> ok([p EXCEPT !.tac = value])
      [] address = 65295 ->
            ok([p EXCEPT !.interrupt_flag = from_bits_truncate(value)])
      [] OTHER -> panic

\* a faulty variant of the loop that wraps TIMA to 0 instead of reloading TMA
RECURSIVE TimaLoopWrapToZero(_, _)
TimaLoopWrapToZero(p, period) ==
    IF p.timer_clock >= period
    THEN LET overflow == p.tima = 255
             q == [p EXCEPT !.tima = IF overflow THEN 0 ELSE p.tima + 1,
                            !.interrupt_flag =
                                IF overflow THEN BitOr(@, TIMER) ELSE @,
                            !.timer_clock = @ - period]
         IN TimaLoopWrapToZero(q, period)
    ELSE p

\* the while loop of handle_timer: one TIMA increment per period held in
\* timer_clock, with the reload from TMA and the TIMER request on overflow
RECURSIVE TimaLoop(_, _)
TimaLoop(p, period) ==
    IF p.timer_clock >= period
    THEN LET overflow == p.tima = 255
             q == [p EXCEPT !.tima = IF overflow THEN p.tma ELSE p.tima + 1,
                            !.interrupt_flag =
                                IF overflow THEN BitOr(@, TIMER) ELSE @,
                            !.timer_clock = @ - period]
         IN TimaLoop(q, period)
    ELSE p

\* GPU::handle_timer; cycles and timer_clock are u32 counters, which the bounds
\* of the model keep far below their wrap
handle_timer(p, cycles) ==
    LET p1 == [p EXCEPT !.cycles = @ + cycles,
                        !.timer_cycles = @ + cycles]
        p2 == IF p1.timer_cycles >= 256
              THEN [p1 EXCEPT !.div = W8(@ + 1), !.timer_cycles = @ - 256]
              ELSE p1
        timer_enabled == Bit(p2.tac, 2) # 0
        timer_freq == CASE BitAnd(p2.tac, 3) = 1 -> 262144
                        [] BitAnd(p2.tac, 3) = 2 -> 65536
                        [] BitAnd(p2.tac, 3) = 3 -> 16384
                        [] OTHER -> 4096
        p3 == [p2 EXCEPT !.timer_clock = @ + cycles * 4]
    IN IF timer_enabled THEN TimaLoop(p3, 4194304 \div timer_freq) ELSE p2

\* the arms of the match in GPU::next; rendered is the line handed to
\* render_line_into_buffer, or -1
OamRead2Arm(p) ==
    IF p.cycles >= 80
    THEN [ppu |-> [p EXCEPT !.cycles = 80, !.mode = Transfer3],
          should_render |-> FALSE, rendered |-> -1]
    ELSE [ppu |-> p, should_render |-> FALSE, rendered |-> -1]

Transfer3Arm(p) ==
    IF p.cycles >= 172
    THEN [ppu |-> [p EXCEPT !.cycles = 0, !.mode = HBlank0,
                            !.interrupt_flag =
                                IF p.enable_m0_interrupt
                                THEN BitOr(@, LCD_STAT) ELSE @],
          should_render |-> FALSE, rendered |-> p.ly]
    ELSE [ppu |-> p, should_render |-> FALSE, rendered |-> -1]

HBlank0Arm(p) ==
    IF p.cycles >= 204
    THEN LET ly == W8(p.ly + 1)
             f1 == IF p.enable_ly_interrupt /\ ly = p.lc
                   THEN BitOr(p.interrupt_flag, LCD_STAT)
                   ELSE p.interrupt_flag
         IN IF ly = 143
            THEN [ppu |-> [p EXCEPT !.cycles = 0, !.ly = ly,
                                    !.mode = VBlank1,
                                    !.interrupt_flag =
                                        IF p.enable_m1_interrupt
                                        THEN BitOr(BitOr(f1, V_BLANK), LCD_STAT)
                                        ELSE BitOr(f1, V_BLANK)],
                  should_render |-> TRUE, rendered |-> -1]
            ELSE [ppu |-> [p EXCEPT !.cycles = 0, !.ly = ly,
                                    !.mode = OamRead2,
                                    !.interrupt_flag =
                                        IF p.enable_m2_interrupt
                                        THEN BitOr(f1, LCD_STAT) ELSE f1],
                  should_render |-> FALSE, rendered |-> -1]
    ELSE [ppu |-> p, should_render |-> FALSE, rendered |-> -1]

VBlank1Arm(p) ==
    IF p.cycles >= 456
    THEN LET ly == W8(p.ly + 1)
             f1 == IF p.enable_ly_interrupt /\ ly = p.lc
                   THEN BitOr(p.interrupt_flag, LCD_STAT)
                   ELSE p.interrupt_flag
         IN IF ly > 153
            THEN [ppu |-> [p EXCEPT !.cycles = 0, !.ly = 0,
                                    !.mode = OamRead2,
                                    !.interrupt_flag =
                                        IF p.enable_m2_interrupt
                                        THEN BitOr(BitClear(f1, V_BLANK), LCD_STAT)
                                        ELSE BitClear(f1, V_BLANK)],
                  should_render |-> FALSE, rendered |-> -1]
            ELSE [ppu |-> [p EXCEPT !.cycles = 0, !.ly = ly,
                                    !.interrupt_flag = f1],
                  should_render |-> FALSE, rendered |-> -1]
    ELSE [ppu |-> p, should_render |-> FALSE, rendered |-> -1]

\* GPU::next: the timer first, then nothing more while the LCD is off, else
\* one arm of the mode machine.  self.ly += 1 is taken to wrap at 256.
GPU_next(p0, elapsed) ==
    LET p == handle_timer(p0, elapsed) IN
    IF ~lcd_display_enable(p)
    THEN [ppu |-> p, should_render |-> FALSE, rendered |-> -1]
    ELSE CASE p.mode = OamRead2 -> OamRead2Arm(p)
           [] p.mode = Transfer3 -> Transfer3Arm(p)
           [] p.mode = HBlank0 -> HBlank0Arm(p)
           [] OTHER -> VBlank1Arm(p)

(***************************************************************************)
(* mem.rs: the memory bus.  A machine m is the record [cpu, bus, ppu,      *)
(* aborted]; aborted stands for a panic of the process.                    *)
(***************************************************************************)
ROM_BEGIN == 256         \* 0x100

ROM_END == 32767         \* 0x7fff

ERAM_BEGIN == 40960      \* 0xa000

ERAM_END == 49151        \* 0xbfff

ERAM_SIZE == ERAM_END - ERAM_BEGIN + 1

\* MemoryBus::new for a boot ROM and a cartridge of the given type and length
MemoryBus_new(mbc, rom_len) ==
    [ memory |-> Empty,
      external_memory |-> Empty,
      has_rom |-> TRUE,
      rom_len |-> rom_len,
      boot_loaded |-> TRUE,
      boot_rom_disabled |-> FALSE,
      mbc_mode |-> mbc,
      rom_bank |-> 0, ram_bank |-> 0, ram_on |-> FALSE, mode |-> "RomMode",
      rom_offset |-> 0, ram_offset |-> 0,
      interrupts_enabled |-> 0 ]

\* the value boot_rom_disabled takes at a write to 0xff50
ff50_write(value) == value = 1

\* MemoryBus::write_byte
write_byte(m, address, value) ==
    LET b == m.bus IN
    CASE address <= 8191 ->                                  \* 0x0000-0x1fff
            IF b.mbc_mode = "MBC1"
            THEN [m EXCEPT !.bus.ram_on = BitAnd(value, 15) = 10]
            ELSE m
      [] address >= 8192 /\ address <= 16383 ->              \* 0x2000-0x3fff
            LET v == IF BitAnd(value, 31) = 0 THEN 1 ELSE BitAnd(value, 31)
                bank == BitAnd(b.rom_bank, 96) + v
            IN [m EXCEPT !.bus.rom_bank = bank,
                         !.bus.rom_offset = bank * 16384]
      [] address >= 16384 /\ address <= 24575 ->             \* 0x4000-0x5fff
            IF b.mode = "RamMode"
            THEN [m EXCEPT !.bus.ram_bank = BitAnd(value, 3),
                           !.bus.ram_offset = BitAnd(value, 3) * 8192]
            ELSE LET bank == BitAnd(b.rom_bank, 31) + BitAnd(value, 3) * 32
                 IN [m EXCEPT !.bus.rom_bank = bank,
                              !.bus.rom_offset = bank * 16384]
      [] address >= 24576 /\ address <= 32767 ->             \* 0x6000-0x7fff
            IF b.mbc_mode = "MBC1"
            THEN [m EXCEPT !.bus.mode =
                     IF BitAnd(value, 1) = 1 THEN "RamMode" ELSE "RomMode"]
            ELSE m
      [] address >= ERAM_BEGIN /\ address <= ERAM_END ->
            LET i == b.ram_offset + BitAnd(address, 8191) IN
            IF i < ERAM_SIZE
            THEN [m EXCEPT !.bus.external_memory = Put(@, i, value)]
            ELSE [m EXCEPT !.aborted = TRUE]
      [] address = 65287 ->                                  \* 0xff07
            [m EXCEPT !.bus.memory = Put(@, address, value)]
      [] address >= VRAM_BEGIN /\ address <= VRAM_END ->
            LET r == write_vram(m.ppu, address, value) IN
            [m EXCEPT !.ppu = r.ppu, !.aborted = @ \/ r.aborted]
      [] address = 65360 ->                                  \* 0xff50
            [m EXCEPT !.bus.boot_rom_disabled = ff50_write(value)]
      [] address = 65535 ->                                  \* 0xffff
            [m EXCEPT !.bus.interrupts_enabled = from_bits_truncate(value)]
      [] OTHER -> [m EXCEPT !.bus.memory = Put(@, address, value)]

\* the cartridge and the boot ROM are inputs: image holds the bytes read so
\* far, under the cell <<"rom", index>> or <<"boot", address>>
RomCell(i) == <<"rom", i>>

BootCell(a) == <<"boot", a>>

\* the index read_rom takes from the cartridge image
RomIndex(b, address) ==
    IF address >= 16384 /\ address <= 32767
    THEN b.rom_offset + BitAnd(address, 16383)
    ELSE address

\* which arm of read_byte decodes the address
ReadArm(b, address) ==
    CASE address >= VRAM_BEGIN /\ address <= VRAM_END -> "vram"
      [] address = 65535 -> "ie"
      [] address <= ROM_BEGIN /\ b.boot_rom_disabled -> "rom"
      [] address >= ROM_BEGIN /\ address <= ROM_END -> "rom"
      [] OTHER -> "memory"

\* self.memory[address]: the first 256 bytes hold the boot ROM image, which
\* no write reaches
MemoryCell(b, address) ==
    IF address < 256 /\ b.boot_loaded THEN {BootCell(address)} ELSE {}

\* the input cells a read of the address consults
InputCells(m, address) ==
    LET b == m.bus IN
    CASE ReadArm(b, address) = "rom" /\ b.has_rom ->
            IF RomIndex(b, address) < b.rom_len
            THEN {RomCell(RomIndex(b, address))} ELSE {}
      [] ReadArm(b, address) = "rom" /\ ~b.has_rom -> MemoryCell(b, address)
      [] ReadArm(b, address) = "memory" -> MemoryCell(b, address)
      [] OTHER -> {}

read_memory(b, img, address) ==
    IF address < 256 /\ b.boot_loaded
    THEN img[BootCell(address)]
    ELSE Get(b.memory, address)

\* MemoryBus::read_byte with read_rom_with_ram_fallback and read_rom; -1
\* stands for the panic of an index outside the cartridge image
read_byte(m, img, address) ==
    LET b == m.bus IN
    CASE ReadArm(b, address) = "vram" -> read_vram(m.ppu, address)
      [] ReadArm(b, address) = "ie" -> b.interrupts_enabled
      [] ReadArm(b, address) = "rom" ->
            IF b.has_rom
            THEN IF RomIndex(b, address) < b.rom_len
                 THEN img[RomCell(RomIndex(b, address))]
                 ELSE -1
            ELSE read_memory(b, img, address)
      [] OTHER -> read_memory(b, img, address)

\* a faulty variant of check_interrupt that looks at IF alone
check_interrupt_if_only(m) == m.ppu.interrupt_flag # 0

\* MemoryBus::check_interrupt: an interrupt is pending iff IE & IF != 0
check_interrupt(m) ==
    BitAnd(m.bus.interrupts_enabled, m.ppu.interrupt_flag) # 0

(***************************************************************************)
(* cpu/mod.rs and cpu/step.rs: the register file and one CPU step.         *)
(***************************************************************************)
ZERO == 128

N == 64

H == 32

CARRY == 16

\* ProcessingUnit::new
ProcessingUnit_new ==
    [ a |-> 0, b |-> 0, c |-> 0, d |-> 0, e |-> 0, f |-> 0, h |-> 0, l |-> 0,
      pc |-> 0, sp |-> 65534,
      halted |-> FALSE, interrupt_master_enable |-> FALSE ]

\* ProcessingUnit::skip_boot_rom
skip_boot_rom(c) ==
    [c EXCEPT !.a = 1, !.f = CARRY + H + ZERO, !.b = 0, !.c = 19, !.d = 0,
              !.e = 216, !.h = 1, !.l = 77, !.sp = 65534, !.pc = 256]

\* Flags::set
FlagSet(f, flag, cond) == IF cond THEN BitOr(f, flag) ELSE BitClear(f, flag)

get_af(c) == c.a * 256 + c.f

\* get_bits: (msb, lsb)
get_bits(n) == <<BitAnd(n, 65280) \div 256, BitAnd(n, 255)>>

push_u8(m, n) ==
    LET sp == W16(m.cpu.sp + 65535) IN
    write_byte([m EXCEPT !.cpu.sp = sp], sp, n)

\* a faulty variant of the push that stores the LSB first
push_u16_lsb_first(m, n) ==
    push_u8(push_u8(m, get_bits(n)[2]), get_bits(n)[1])

push_u16(m, n) == push_u8(push_u8(m, get_bits(n)[1]), get_bits(n)[2])

call(m, nn) == [push_u16(m, m.cpu.pc) EXCEPT !.cpu.pc = nn]

\* read_sp_u8: [m, v]; a read that panics leaves the machine aborted
read_sp_u8(m, img) ==
    LET x == read_byte(m, img, m.cpu.sp) IN
    [m |-> [m EXCEPT !.cpu.sp = W16(@ + 1), !.aborted = @ \/ x < 0],
     v |-> IF x < 0 THEN 0 ELSE x]

\* read_sp_u16: [m, v]
read_sp_u16(m, img) ==
    LET lo == read_sp_u8(m, img)
        hi == read_sp_u8(lo.m, img)
    IN [m |-> hi.m, v |-> hi.v * 256 + lo.v]

ret(m, img) ==
    LET r == read_sp_u16(m, img) IN [r.m EXCEPT !.cpu.pc = r.v]

reset_and_set_carry_zero(c, prev, new) ==
    [c EXCEPT !.f = BitClear(FlagSet(FlagSet(c.f, ZERO, new = 0), H,
                                     BitAnd(BitAnd(prev, 15) + 1, 16) = 16), N)]

reset_and_set_zero(c, n) == [c EXCEPT !.f = FlagSet(0, ZERO, n = 0)]

BitXor(x, y) == x + y - 2 * BitAnd(x, y)

xor_a(c, n) ==
    LET a == BitXor(c.a, n) IN reset_and_set_zero([c EXCEPT !.a = a], a)

\* a faulty variant of POP AF that loads F unmasked
pop_af_unmasked(m, img) ==
    LET lo == read_sp_u8(m, img)
        hi == read_sp_u8(lo.m, img)
    IN [hi.m EXCEPT !.cpu.f = lo.v, !.cpu.a = hi.v]

\* 0xF1 POP AF
pop_af(m, img) ==
    LET lo == read_sp_u8(m, img)
        hi == read_sp_u8(lo.m, img)
    IN [hi.m EXCEPT !.cpu.f = BitAnd(lo.v, 240), !.cpu.a = hi.v]

\* a faulty variant of the dispatch that leaves IME set
check_and_execute_interrupts_keep_ime(m) ==
    IF check_interrupt(m) /\ m.cpu.interrupt_master_enable
       /\ interrupt_starting_address(m.ppu.interrupt_flag) >= 0
    THEN [m |-> call([m EXCEPT !.cpu.halted = FALSE,
                               !.ppu.interrupt_flag =
                                   BitClear(@, highest_prio_bit(@))],
                     interrupt_starting_address(m.ppu.interrupt_flag)),
          serviced |-> TRUE]
    ELSE [m |-> [m EXCEPT !.cpu.halted = @ /\ ~check_interrupt(m)],
          serviced |-> FALSE]

\* check_and_execute_interrupts: [m, serviced]
check_and_execute_interrupts(m) ==
    LET interrupt_triggered == check_interrupt(m)
        m1 == [m EXCEPT !.cpu.halted = IF interrupt_triggered THEN FALSE ELSE @]
        interrupt_flags == m.ppu.interrupt_flag
        addr == interrupt_starting_address(interrupt_flags)
    IN
    IF interrupt_triggered /\ m.cpu.interrupt_master_enable /\ addr >= 0
    THEN [m |-> call([m1 EXCEPT !.cpu.interrupt_master_enable = FALSE,
                                !.ppu.interrupt_flag =
                                    BitClear(@, highest_prio_bit(interrupt_flags))],
                     addr),
          serviced |-> TRUE]
    ELSE [m |-> m1, serviced |-> FALSE]

\* the opcodes of the model: NOP, INC A, HALT, XOR A, RETI, POP AF, PUSH AF, EI
Opcodes == {0, 60, 118, 175, 217, 241, 245, 251}

\* the bytes the cartridge and boot ROM images are drawn from: the opcodes of
\* the model where the program runs, and two values (0x00, 0xF1) where it
\* reads data
RomBytes == Opcodes

DataBytes == {0, 241}

\* the conditional branches: JR NZ/Z/NC/C, JP cc, CALL cc and RET cc
JrCc == {32, 40, 48, 56}

JpCc == {194, 202, 210, 218}

CallCc == {196, 204, 212, 220}

RetCc == {192, 200, 208, 216}

\* debug.rs lookup_op_code: the T-cycle cost of an opcode (standard table).
\* Its callers take one count per opcode byte (the second component of a
\* pair of name and count); for a conditional branch the table of the model
\* holds the count of the branch not taken.
lookup_op_code(op) ==
    CASE op = 0 -> 4         \* 0x00 NOP
      [] op = 60 -> 4        \* 0x3C INC A
      [] op = 118 -> 4       \* 0x76 HALT
      [] op = 175 -> 4       \* 0xAF XOR A
      [] op = 217 -> 16      \* 0xD9 RETI
      [] op = 241 -> 12      \* 0xF1 POP AF
      [] op = 245 -> 16      \* 0xF5 PUSH AF
      [] op = 251 -> 4       \* 0xFB EI
      [] op = 119 -> 8       \* 0x77 LD (HL),A
      [] op \in JrCc -> 8
      [] op \in JpCc -> 12
      [] op \in CallCc -> 12
      [] op \in RetCc -> 8
      [] OTHER -> -1

\* the arms of the match in ProcessingUnit::next for the opcodes of the model
Exec(m, img, op) ==
    CASE op = 0 -> m
      [] op = 60 ->
            LET a == m.cpu.a
                c == [m.cpu EXCEPT !.a = W8(a + 1)]
            IN [m EXCEPT !.cpu = reset_and_set_carry_zero(c, a, c.a)]
      [] op = 118 -> [m EXCEPT !.cpu.halted = TRUE]
      [] op = 175 -> [m EXCEPT !.cpu = xor_a(m.cpu, m.cpu.a)]
      [] op = 217 -> [ret(m, img) EXCEPT !.cpu.interrupt_master_enable = TRUE]
      [] op = 241 -> pop_af(m, img)
      [] op = 245 -> push_u16(m, get_af(m.cpu))
      [] op = 251 -> [m EXCEPT !.cpu.interrupt_master_enable = TRUE]
      [] OTHER -> m

\* the addresses the instruction reads besides its own bytes
DataAddrs(m, op) ==
    IF op \in {217, 241} THEN {m.cpu.sp, W16(m.cpu.sp + 1)} ELSE {}

CellsOf(m, addrs) == UNION {InputCells(m, a) : a \in addrs}

\* the images that extend img by a value for each of the cells not yet read
Reveal(img, cells, bytes) ==
    {img @@ ext : ext \in [cells \ DOMAIN img -> bytes]}

\* lookup_op_code_for_pc: the cost is looked up from the byte that is at pc
\* once the instruction has executed
lookup_op_code_for_pc(m, img, pc) == lookup_op_code(read_byte(m, img, pc))

\* the value next returns when it has dispatched an interrupt (step.rs:12)
InterruptCycles == 4

\* the value next returns while the CPU stays halted (step.rs:16)
HaltedCycles == 4

\* the opcode fetch: the byte at pc, over the values of a cell not read yet
Fetched(m, img, pc) ==
    { [image |-> i1, op |-> read_byte(m, i1, pc)] :
        i1 \in Reveal(img, CellsOf(m, {pc}), RomBytes) }

\* the execution of the fetched opcode, over the data bytes not read yet
Executed(m, f) ==
    { [image |-> i2, op |-> f.op, m |-> Exec(m, i2, f.op),
       data |-> IF DataAddrs(m, f.op) = {} THEN -1
                ELSE read_byte(m, i2, m.cpu.sp)] :
        i2 \in Reveal(f.image, CellsOf(m, DataAddrs(m, f.op)), DataBytes) }

\* the return value, looked up after the execution
Costed(x, pc) ==
    { [m |-> x.m, image |-> i3,
       elapsed |-> lookup_op_code_for_pc(x.m, i3, pc),
       serviced |-> FALSE, executed |-> TRUE, opcode |-> x.op,
       data |-> x.data] :
        i3 \in Reveal(x.image, CellsOf(x.m, {pc}), RomBytes) }

\* the decode-execute part of ProcessingUnit::next, from `let pc = self.pc`;
\* programs that run into an opcode outside Opcodes are not followed
Instruction(m, img) ==
    LET pc == m.cpu.pc
        m2 == [m EXCEPT !.cpu.pc = W16(pc + 1)]
        fetched == {f \in Fetched(m2, img, pc) : f.op \in Opcodes}
        executed == UNION {Executed(m2, f) : f \in fetched}
    IN {o \in UNION {Costed(x, pc) : x \in executed} : o.elapsed >= 0}

\* ProcessingUnit::next: the set of outcomes [m, image, elapsed, serviced,
\* executed, opcode, data] over the bytes of the images not read before; data
\* is the byte a POP AF or RETI read at SP
CpuNext(m, img) ==
    LET r == check_and_execute_interrupts(m) IN
    IF r.serviced
    THEN { [m |-> r.m, image |-> img, elapsed |-> InterruptCycles,
            serviced |-> TRUE, executed |-> FALSE, opcode |-> -1,
            data |-> -1] }
    ELSE IF r.m.cpu.halted
    THEN { [m |-> r.m, image |-> img, elapsed |-> HaltedCycles,
            serviced |-> FALSE, executed |-> FALSE, opcode |-> -1,
            data |-> -1] }
    ELSE Instruction(r.m, img)

(***************************************************************************)
(* input.rs and core.rs: the joypad latch and Core::step.                  *)
(***************************************************************************)
Joypad_default == [mode |-> "Action", input |-> 0]

\* Joypad::update
Joypad_update(j, keys) == [j EXCEPT !.input = keys]

\* the joypad masks the host passes
KeyMasks == {64}

Machine == [cpu |-> cpu, bus |-> bus, ppu |-> ppu, aborted |-> hist.aborted]

Snapshot ==
    [cpu |-> cpu, ie |-> bus.interrupts_enabled, iflag |-> ppu.interrupt_flag,
     lcd_on |-> lcd_display_enable(ppu), mode |-> ppu.mode,
     timer |-> ppu.div * 256 + ppu.timer_cycles]

\* the record of the last operation: its kind, its arguments and return
\* values, the state it started from (pre) and, for a Core step, IF as the CPU
\* step left it (cpu_if); for a bus write, the bytes the bus returned at the
\* probed addresses before it (before)
NoLast ==
    [op |-> "init", elapsed |-> 0, should_render |-> FALSE, serviced |-> FALSE,
     executed |-> FALSE, opcode |-> -1, data |-> -1, addr |-> -1, value |-> -1,
     cpu_if |-> 0, pre |-> Snapshot, before |-> << >>]

\* a faulty variant of Core::step that hands the PPU machine cycles, not T-cycles
PpuElapsedMachineCycles(elapsed) == elapsed \div 4

\* the cycle count Core::step hands to GPU::next
PpuElapsed(elapsed) == elapsed

\* Core::step on the outcome o of the CPU step and the outcome g of GPU::next:
\* joypad update, one CPU step, the PPU (with the timer) advanced by the
\* cycles of that step; the return value is should_render
CoreStepTo(keys, o, g) ==
    /\ joypad' = Joypad_update(joypad, keys)
    /\ cpu' = o.m.cpu
    /\ bus' = o.m.bus
    /\ ppu' = IF o.m.aborted THEN o.m.ppu ELSE g.ppu
    /\ image' = o.image
    /\ last' = [NoLast EXCEPT !.op = "step", !.elapsed = o.elapsed,
                  !.should_render = ~o.m.aborted /\ g.should_render,
                  !.serviced = o.serviced, !.executed = o.executed,
                  !.opcode = o.opcode, !.data = o.data,
                  !.cpu_if = o.m.ppu.interrupt_flag, !.value = keys]

\* Core::step, at most MaxSteps times
CoreStep ==
    /\ ~hist.aborted
    /\ steps < MaxSteps
    /\ \E keys \in KeyMasks : \E o \in CpuNext(Machine, image) :
          /\ CoreStepTo(keys, o, GPU_next(o.m.ppu, PpuElapsed(o.elapsed)))
          /\ hist' = [hist EXCEPT !.aborted = o.m.aborted]
    /\ steps' = steps + 1
    /\ UNCHANGED <<cart, audio, apu>>

\* the values the program stores in IE and IF in the model
IeValues == {4, 31}

IfValues == {5, 31}

\* a store of the program to IE: MemoryBus::write_byte(0xffff, value)
WriteIe ==
    /\ ~hist.aborted
    /\ hist.writes < MaxWrites
    /\ \E value \in IeValues :
          LET m == write_byte(Machine, 65535, value) IN
          /\ bus' = m.bus
          /\ last' = [NoLast EXCEPT !.op = "write", !.addr = 65535,
                                    !.value = value]
    /\ hist' = [hist EXCEPT !.writes = @ + 1]
    /\ UNCHANGED <<cpu, ppu, joypad, image, steps, cart, audio, apu>>

\* a store of the program to IF: GPU::write_vram(0xff0f, value)
WriteIf ==
    /\ ~hist.aborted
    /\ hist.writes < MaxWrites
    /\ \E value \in IfValues :
          LET r == write_vram(ppu, 65295, value) IN
          /\ ppu' = r.ppu
          /\ last' = [NoLast EXCEPT !.op = "write", !.addr = 65295,
                                    !.value = value]
    /\ hist' = [hist EXCEPT !.writes = @ + 1]
    /\ UNCHANGED <<cpu, bus, joypad, image, steps, cart, audio, apu>>

\* no cartridge controller and no audio device: the parts of the machine a
\* behaviour does not use
NoCart == [variant |-> "none"]

NoAudio == [buffer |-> 0, clock |-> 0]

NoApu == [enabled |-> FALSE]

\* what the checks keep beside the program's state: whether a panic ended the
\* run, the stores made, the T-cycles handed to GPU::next since the last
\* should_render (fed), the should_render signals seen (frames), the cycles
\* between the last two of them (frame_len), the cycles since the PPU last
\* wrapped from LY 153 to LY 0 (pos, -1 before the first wrap), whether
\* 0x01 has been stored to 0xff50 (latched), the T-cycles handed to the timer
\* since a timer register was last written (since) and TIMA at that time
\* (tima0), and the T-cycles handed to the timer since DIV was last written
\* or the machine built (div_since), and whether a write to NR52 has switched
\* the APU off and none has switched it on since (apu_off)
NoHist ==
    [aborted |-> FALSE, writes |-> 0, fed |-> 0, frames |-> 0, frame_len |-> 0,
     pos |-> -1, latched |-> FALSE, since |-> 0, tima0 |-> 0,
     div_since |-> 0, apu_off |-> FALSE, lines |-> << >>]

\* Core::load: cold boot with a boot ROM and a cartridge
InitCold ==
    /\ cpu = ProcessingUnit_new
    /\ bus = MemoryBus_new("NoMBC", 32768)
    /\ ppu = GPU_new

\* the bus and the PPU once 0x01 is stored to 0xff50, as the boot ROM's last
\* instruction does
BootDone ==
    write_byte([cpu |-> ProcessingUnit_new,
                bus |-> MemoryBus_new("NoMBC", 32768),
                ppu |-> GPU_new, aborted |-> FALSE], 65360, 1)

\* Core::load_without_boot_rom: the post-boot register values and the boot
\* ROM switched off
InitSkip ==
    /\ cpu = skip_boot_rom(ProcessingUnit_new)
    /\ bus = BootDone.bus
    /\ ppu = BootDone.ppu

Init ==
    /\ InitCold \/ InitSkip
    /\ joypad = Joypad_default
    /\ image = Empty
    /\ steps = 0
    /\ hist = NoHist
    /\ last = NoLast
    /\ cart = NoCart
    /\ audio = NoAudio
    /\ apu = NoApu

Next == CoreStep \/ WriteIe \/ WriteIf

Spec == Init /\ [][Next]_vars

(***************************************************************************)
(* Interrupt dispatch and HALT at step entry.                              *)
(***************************************************************************)
\* the state a Core step started from has IME set and a bit of IE & IF set
DispatchDue ==
    /\ last.op = "step"
    /\ last.pre.cpu.interrupt_master_enable
    /\ BitAnd(last.pre.ie, last.pre.iflag) # 0

\* the lowest-numbered bit of IE & IF at step entry
DueBit == highest_prio_bit(BitAnd(last.pre.ie, last.pre.iflag))

Vector(bit) ==
    CASE bit = 1 -> 64 [] bit = 2 -> 72 [] bit = 4 -> 80 [] bit = 8 -> 88
      [] OTHER -> 96

\* C1: at step entry with IME set and IE & IF != 0, the interrupt serviced is
\* the lowest-numbered bit of IE & IF: PC becomes its vector and it is the
\* bit cleared in IF
C1_LowestEnabledServiced ==
    DispatchDue =>
        /\ cpu.pc = Vector(DueBit)
        /\ last.cpu_if = BitClear(last.pre.iflag, DueBit)

\* C1 fails on IE = 0x04, IF = 0x05: the step services V_BLANK, which IE does
\* not enable (the code takes the lowest bit of IF alone)
C1_DisabledBitServiced ==
    /\ DispatchDue
    /\ last.serviced
    /\ BitAnd(last.pre.ie, last.pre.iflag) = TIMER
    /\ cpu.pc = Vector(V_BLANK)

\* the byte at address a as the bus returns it, -1 where the byte is one of the
\* images' bytes that no operation has read yet
Peek(a) ==
    IF InputCells(Machine, a) \subseteq DOMAIN image
    THEN read_byte(Machine, image, a) ELSE -1

\* the bits of interrupt_flag a dispatch can clear
IfBits == {V_BLANK, LCD_STAT, TIMER, SERIAL, JOYPAD}

\* what the dispatch of one interrupt leaves behind
DispatchEffect ==
    /\ ~cpu.interrupt_master_enable
    /\ ~cpu.halted
    /\ \E bit \in IfBits :
          /\ BitAnd(last.pre.iflag, bit) # 0
          /\ last.cpu_if = BitClear(last.pre.iflag, bit)
    /\ bus.interrupts_enabled = last.pre.ie
    /\ cpu.sp = W16(last.pre.cpu.sp - 2)
    /\ Peek(cpu.sp) = last.pre.cpu.pc % 256
    /\ Peek(W16(cpu.sp + 1)) = last.pre.cpu.pc \div 256
    /\ ~last.executed

\* C2 as stated: after any dispatch IME and HALTED are false, exactly one bit
\* of IF is cleared, IE is unchanged, SP is lower by 2, the two bytes at the
\* new SP hold the old PC and no instruction has run in the step
C2_Stated ==
    (last.op = "step" /\ last.serviced) => DispatchEffect

\* the address lies in work RAM or high RAM, the memory a store leaves as
\* plain bytes
InRam(a) == (49152 <= a /\ a <= 57343) \/ (65408 <= a /\ a <= 65534)

\* C2 amended: the same effect whenever the two bytes pushed land in work RAM
\* or high RAM
C2_DispatchEffect ==
    ( /\ last.op = "step"
      /\ last.serviced
      /\ InRam(W16(last.pre.cpu.sp - 1))
      /\ InRam(W16(last.pre.cpu.sp - 2)) ) => DispatchEffect

\* a dispatch that pushed a PC with two different bytes onto a stack in high RAM
C2_Witness ==
    /\ last.op = "step"
    /\ last.serviced
    /\ InRam(W16(last.pre.cpu.sp - 1))
    /\ InRam(W16(last.pre.cpu.sp - 2))
    /\ last.pre.cpu.pc % 256 # last.pre.cpu.pc \div 256
    /\ last.pre.iflag # last.cpu_if

\* C3: a step that services an interrupt returns 20 T-cycles
C3_DispatchTakes20 ==
    (last.op = "step" /\ last.serviced) => last.elapsed = 20

\* C3 fails on any dispatch: the step returns 4
C3_DispatchTook4 ==
    last.op = "step" /\ last.serviced /\ last.elapsed = 4

\* the state a Core step started from is HALTED with IME clear and a bit of
\* IE & IF set
HaltWake ==
    /\ last.op = "step"
    /\ last.pre.cpu.halted
    /\ ~last.pre.cpu.interrupt_master_enable
    /\ BitAnd(last.pre.ie, last.pre.iflag) # 0

\* C4: a step entered HALTED with IME clear and IE & IF != 0 only clears
\* HALTED: IF, PC and the registers keep their values, no instruction runs and
\* the step returns 4
C4_WakeOnly ==
    HaltWake =>
        /\ ~cpu.halted
        /\ last.cpu_if = last.pre.iflag
        /\ cpu = [last.pre.cpu EXCEPT !.halted = FALSE]
        /\ ~last.executed
        /\ last.elapsed = 4

\* C4 fails on HALT, IE = 0x04, IF = 0x05: the waking step also runs the
\* instruction after the HALT
C4_WakeRanInstruction ==
    /\ HaltWake
    /\ last.executed
    /\ cpu.pc # last.pre.cpu.pc

\* C5: the low nibble of F is zero in every state after a cold boot or a
\* skip-boot start, and a POP AF leaves F = (the byte read at SP) & 0xF0
C5_FlagsLowNibbleZero ==
    /\ BitAnd(cpu.f, 15) = 0
    /\ (last.op = "step" /\ last.opcode = 241) =>
           cpu.f = BitAnd(last.data, 240)

\* a POP AF that read a byte with a nonzero low nibble
C5_Witness ==
    /\ last.op = "step"
    /\ last.opcode = 241
    /\ BitAnd(last.data, 15) # 0
    /\ cpu.f # 0

(***************************************************************************)
(* Frames: Core::step on a cartridge whose entry point holds a HALT, with  *)
(* the LCD on and no interrupt enabled.  The first step executes the HALT, *)
(* every later one is a halted step of 4 cycles, so the PPU runs on alone. *)
(***************************************************************************)
\* LCDC as the program sets it to switch the LCD on
LcdcOn == LCD_DISPLAY_ENABLE + 17        \* 0x91

\* the cartridge byte at the entry point 0x0100
EntryPoint == skip_boot_rom(ProcessingUnit_new).pc

InitFrame ==
    /\ cpu = skip_boot_rom(ProcessingUnit_new)
    /\ bus = BootDone.bus
    /\ ppu = write_vram(BootDone.ppu, 65344, LcdcOn).ppu
    /\ joypad = Joypad_default
    /\ image \in Reveal(Empty, {RomCell(EntryPoint)}, {118})
    /\ steps = 0
    /\ hist = NoHist
    /\ last = NoLast
    /\ cart = NoCart
    /\ audio = NoAudio
    /\ apu = NoApu

\* the history after a Core step that handed n cycles to GPU::next, which took
\* the PPU from p0 to g.ppu
Account(h, p0, g, n) ==
    [h EXCEPT
       !.fed = IF g.should_render THEN 0 ELSE @ + n,
       !.frames = IF g.should_render THEN @ + 1 ELSE @,
       !.frame_len = IF g.should_render THEN h.fed + n ELSE @,
       !.pos = IF p0.mode = VBlank1 /\ g.ppu.mode = OamRead2 THEN 0
               ELSE IF @ >= 0 THEN @ + n ELSE @]

\* Core::step, until MaxFrames should_render signals have been returned
FrameStep ==
    /\ ~hist.aborted
    /\ hist.frames < MaxFrames
    /\ \E keys \in KeyMasks : \E o \in CpuNext(Machine, image) :
          LET n == PpuElapsed(o.elapsed)
              g == GPU_next(o.m.ppu, n) IN
          /\ CoreStepTo(keys, o, g)
          /\ hist' = [Account(hist, o.m.ppu, g, n) EXCEPT
                        !.aborted = o.m.aborted]
    /\ UNCHANGED <<steps, cart, audio, apu>>

NextFrame == FrameStep

SpecFrame == InitFrame /\ [][NextFrame]_vars

TimerCount == (ppu.div * 256 + ppu.timer_cycles) % 65536

CycleCounts == {4, 12}

InitPpu ==
    /\ cpu = ProcessingUnit_new
    /\ bus = MemoryBus_new("NoMBC", 32768)
    /\ ppu = write_vram(GPU_new, 65344, LcdcOn).ppu
    /\ joypad = Joypad_default
    /\ image = Empty
    /\ steps = 0
    /\ hist = NoHist
    /\ last = NoLast
    /\ cart = NoCart
    /\ audio = NoAudio
    /\ apu = NoApu

\* GPU::next(elapsed), with the same elapsed throughout a behaviour
PpuAdvance ==
    /\ hist.frames < MaxFrames
    /\ \E elapsed \in CycleCounts :
          LET g == GPU_next(ppu, elapsed) IN
          /\ last.op = "next" => elapsed = last.elapsed
          /\ ppu' = g.ppu
          /\ hist' = Account(hist, ppu, g, elapsed)
          /\ last' = [NoLast EXCEPT !.op = "next", !.elapsed = elapsed,
                                    !.should_render = g.should_render]
    /\ UNCHANGED <<cpu, bus, joypad, image, steps, cart, audio, apu>>

NextPpu == PpuAdvance

SpecPpu == InitPpu /\ [][NextPpu]_vars

\* C7: with the LCD on, the cycles handed to the PPU between two consecutive
\* frame_ready signals sum to 70,224
C7_FrameIs70224 ==
    hist.frames >= 2 => hist.frame_len = 70224

\* C7 fails on steps of 4 cycles: the second signal comes 58,784 cycles
\* after the first
C7_ShortFrame ==
    hist.frames >= 2 /\ hist.frame_len = 58784

\* the line and the mode C8 gives the PPU at pos cycles after LY wrapped to 0
LineAt(pos) == (pos % 70224) \div 456

ModeAt(pos) ==
    LET d == (pos % 70224) % 456 IN
    IF LineAt(pos) >= 144 THEN VBlank1
    ELSE IF d < 80 THEN OamRead2
    ELSE IF d < 252 THEN Transfer3
    ELSE HBlank0

\* C8: from the wrap of LY to 0 on, each line 0..143 is 80 cycles of mode 2,
\* 172 of mode 3 and 204 of mode 0; VBLANK begins at LY 144 and lasts 4,560
\* cycles over LY 144..153; then mode 2 starts again at LY 0
C8_LineTiming ==
    hist.pos >= 0 =>
        /\ ppu.ly = LineAt(hist.pos)
        /\ ppu.mode = ModeAt(hist.pos)

\* C8 fails 172 cycles into line 0: the PPU is in HBLANK already
C8_EarlyHBlank ==
    /\ hist.pos = 172
    /\ ppu.ly = 0
    /\ ppu.mode = HBlank0

(***************************************************************************)
(* PPU registers: GPU::next and GPU::write_vram on LCDC and LY, in any     *)
(* order, MaxRegOps operations in all.                                     *)
(***************************************************************************)
\* the cycle counts handed to GPU::next: one machine cycle, an HBLANK, a line
ElapsedValues == {4, 204, 456}

\* the values stored to LCDC (0xff40): LCD off, LCD on
LcdcValues == {17, LcdcOn}

\* the values stored to LY (0xff44)
LyValues == {0, 153, 200}

InitRegs ==
    /\ InitCold
    /\ joypad = Joypad_default
    /\ image = Empty
    /\ steps = 0
    /\ hist = NoHist
    /\ last = NoLast
    /\ cart = NoCart
    /\ audio = NoAudio
    /\ apu = NoApu

\* GPU::next(elapsed)
GpuNext ==
    /\ steps < MaxRegOps
    /\ \E elapsed \in ElapsedValues :
          LET g == GPU_next(ppu, elapsed) IN
          /\ ppu' = g.ppu
          /\ last' = [NoLast EXCEPT !.op = "next", !.elapsed = elapsed,
                                    !.should_render = g.should_render,
                                    !.value = g.rendered, !.pre = ppu]
    /\ steps' = steps + 1
    /\ UNCHANGED <<cpu, bus, joypad, image, hist, cart, audio, apu>>

\* a store of the program to LCDC: GPU::write_vram(0xff40, value)
WriteLcdc ==
    /\ steps < MaxRegOps
    /\ \E value \in LcdcValues :
          /\ ppu' = write_vram(ppu, 65344, value).ppu
          /\ last' = [NoLast EXCEPT !.op = "write", !.addr = 65344,
                                    !.value = value]
    /\ steps' = steps + 1
    /\ UNCHANGED <<cpu, bus, joypad, image, hist, cart, audio, apu>>

\* a store of the program to LY: GPU::write_vram(0xff44, value)
WriteLy ==
    /\ steps < MaxRegOps
    /\ \E value \in LyValues :
          /\ ppu' = write_vram(ppu, 65348, value).ppu
          /\ last' = [NoLast EXCEPT !.op = "write", !.addr = 65348,
                                    !.value = value]
    /\ steps' = steps + 1
    /\ UNCHANGED <<cpu, bus, joypad, image, hist, cart, audio, apu>>

NextRegs == GpuNext \/ WriteLcdc \/ WriteLy

SpecRegs == InitRegs /\ [][NextRegs]_vars

\* C9: after any PPU advances and register writes, 0xff44 reads a value in
\* 0..153; while LCDC bit 7 is clear it reads 0 and the mode bits of STAT
\* (0xff41) read 0
C9_LyInRange ==
    /\ read_vram(ppu, 65348) \in 0..153
    /\ ~lcd_display_enable(ppu) =>
          /\ read_vram(ppu, 65348) = 0
          /\ BitAnd(read_vram(ppu, 65345), 3) = 0

\* C9 fails on a store of 0xc8 to 0xff44 with the LCD on: 0xff44 reads 200
C9_LyReads200 ==
    /\ last.op = "write"
    /\ last.addr = 65348
    /\ lcd_display_enable(ppu)
    /\ read_vram(ppu, 65348) = 200

(***************************************************************************)
(* Boot ROM overlay: MemoryBus::read_byte below 0x0100 and                 *)
(* MemoryBus::write_byte to 0xff50, MaxBusOps operations in all.           *)
(***************************************************************************)
\* the addresses read: the first and the last byte under the overlay
OverlayAddrs == {0, 255}

\* the bytes the boot ROM and the cartridge hold there
OverlayBytes == {49, 195}

\* the values stored to 0xff50
LatchValues == {0, 1, 17}

InitBus ==
    /\ InitCold
    /\ joypad = Joypad_default
    /\ image = Empty
    /\ steps = 0
    /\ hist = NoHist
    /\ last = NoLast
    /\ cart = NoCart
    /\ audio = NoAudio
    /\ apu = NoApu

\* MemoryBus::read_byte(address); the boot ROM's and the cartridge's byte at
\* the address are drawn at the first read of it
BusRead ==
    /\ steps < MaxBusOps
    /\ \E address \in OverlayAddrs :
       \E img \in Reveal(image, {BootCell(address), RomCell(address)},
                         OverlayBytes) :
          /\ image' = img
          /\ last' = [NoLast EXCEPT !.op = "read", !.addr = address,
                        !.value = read_byte(Machine, img, address)]
    /\ steps' = steps + 1
    /\ UNCHANGED <<cpu, bus, ppu, joypad, hist, cart, audio, apu>>

\* MemoryBus::write_byte(0xff50, value)
BusWrite ==
    /\ steps < MaxBusOps
    /\ \E value \in LatchValues :
          /\ bus' = write_byte(Machine, 65360, value).bus
          /\ hist' = [hist EXCEPT !.latched = @ \/ value = 1]
          /\ last' = [NoLast EXCEPT !.op = "write", !.addr = 65360,
                                    !.value = value]
    /\ steps' = steps + 1
    /\ UNCHANGED <<cpu, ppu, joypad, image, cart, audio, apu>>

NextBus == BusRead \/ BusWrite

SpecBus == InitBus /\ [][NextBus]_vars

\* C10: a read below 0x0100 returns the boot ROM's byte until 0x01 has been
\* written to 0xff50 and the cartridge's byte ever after, whatever is written
\* to 0xff50 later
C10_OverlayLatched ==
    (last.op = "read" /\ last.addr < 256) =>
        last.value = IF hist.latched THEN image[RomCell(last.addr)]
                     ELSE image[BootCell(last.addr)]

\* C10 fails on the stores 0x01 then 0x00 to 0xff50: the read that follows
\* returns the boot ROM's byte again
C10_OverlayBack ==
    /\ last.op = "read"
    /\ last.addr < 256
    /\ hist.latched
    /\ last.value = image[BootCell(last.addr)]
    /\ last.value # image[RomCell(last.addr)]

(***************************************************************************)
(* Bus round trips: MemoryBus::write_byte and MemoryBus::read_byte on one  *)
(* address of each mapped region and on unmapped ones, MaxMemOps           *)
(* operations in all.                                                      *)
(***************************************************************************)
\* one address each of work RAM (0xc000), VRAM (0x8000), OAM (0xfe00), high
\* RAM (0xff80), IE (0xffff) and IF (0xff0f)
RoundTripAddrs == {49152, 32768, 65024, 65408, 65535, 65295}

\* the unusable area (0xfea0) and an IO address no component maps (0xff03)
UnmappedAddrs == {65184, 65283}

\* the DMA register (0xff46)
DmaAddr == {65350}

ProbeAddrs == RoundTripAddrs \cup UnmappedAddrs \cup DmaAddr

\* the bytes the bus returns at the probed addresses
Bytes == [a \in ProbeAddrs |-> read_byte(Machine, image, a)]

InitMem ==
    /\ InitCold
    /\ joypad = Joypad_default
    /\ image = Empty
    /\ steps = 0
    /\ hist = NoHist
    /\ last = NoLast
    /\ cart = NoCart
    /\ audio = NoAudio
    /\ apu = NoApu

\* MemoryBus::write_byte(address, value) with value 0x12 or 0xc0
MemWrite ==
    /\ steps < MaxMemOps
    /\ \E address \in ProbeAddrs : \E value \in {18, 192} :
          LET m == write_byte(Machine, address, value) IN
          /\ bus' = m.bus
          /\ ppu' = m.ppu
          /\ hist' = [hist EXCEPT !.aborted = m.aborted]
          /\ last' = [NoLast EXCEPT !.op = "write", !.addr = address,
                                    !.value = value, !.before = Bytes]
    /\ steps' = steps + 1
    /\ UNCHANGED <<cpu, joypad, image, cart, audio, apu>>

\* MemoryBus::read_byte(address)
MemRead ==
    /\ steps < MaxMemOps
    /\ \E address \in ProbeAddrs :
          last' = [NoLast EXCEPT !.op = "read", !.addr = address,
                     !.value = read_byte(Machine, image, address)]
    /\ steps' = steps + 1
    /\ UNCHANGED <<cpu, bus, ppu, joypad, image, hist, cart, audio, apu>>

NextMem == MemWrite \/ MemRead

SpecMem == InitMem /\ [][NextMem]_vars

\* the byte a write of v leaves readable at address a: v, for IE and IF the
\* five defined bits of v
Stored(a, v) == IF a \in {65535, 65295} THEN BitAnd(v, 31) ELSE v

\* C11: in work RAM, VRAM, OAM, high RAM, IE and IF a bus write of v followed
\* by a read of the same address returns v (IE, IF: v & 0x1f), and the write
\* changes no other address of these regions
C11_RoundTrip ==
    (last.op = "write" /\ last.addr \in RoundTripAddrs) =>
        \A a \in RoundTripAddrs :
            Bytes[a] = IF a = last.addr THEN Stored(a, last.value)
                       ELSE last.before[a]

\* C11 fails on a write of 0xc0 to 0xff0f: the read returns 0xc0, not 0x00
C11_IfReadsUnmasked ==
    /\ last.op = "write"
    /\ last.addr = 65295
    /\ last.value = 192
    /\ Bytes[65295] = 192

\* C12: a read of the unusable area or of an IO address that no component
\* maps returns 0xff whatever was written there, and a write to such an
\* address changes nothing a read can observe
C12_UnmappedReadsFF ==
    /\ \A a \in UnmappedAddrs : Bytes[a] = 255
    /\ (last.op = "write" /\ last.addr \in UnmappedAddrs) => Bytes = last.before

\* C12 fails on a write of 0x12 to 0xfea0: the next read returns 0x12
C12_UnmappedKeepsWrite ==
    /\ last.op = "write"
    /\ last.addr = 65184
    /\ last.value = 18
    /\ last.before[65184] = 0
    /\ Bytes[65184] = 18

\* C13: after a write of n to 0xff46 the first OAM byte, as read at 0xfe00 and
\* as fetched by the sprite scan (GPU::read_vram), is the byte that
\* read(n << 8) returned before the write (n = 0xc0, source in work RAM)
C13_DmaCopies ==
    (last.op = "write" /\ last.addr \in DmaAddr /\ last.value = 192) =>
        /\ Bytes[65024] = last.before[49152]
        /\ read_vram(ppu, 65024) = last.before[49152]

\* C13 fails after 0x12 is stored at 0xc000 and 0xc0 is written to 0xff46: OAM
\* byte 0 still reads 0x00 and 0xff46 holds 0xc0 as plain memory
C13_DmaCopiesNothing ==
    /\ last.op = "write"
    /\ last.addr \in DmaAddr
    /\ last.value = 192
    /\ last.before[49152] = 18
    /\ Bytes[65024] = 0
    /\ read_vram(ppu, 65024) = 0
    /\ Bytes[65350] = 192

(***************************************************************************)
(* The timer: GPU::next with the LCD off, which is GPU::handle_timer alone, *)
(* between stores to TAC, TMA, TIMA and IF through GPU::write_vram;         *)
(* MaxTimerOps operations in all.  last.pre is the PPU before the call.    *)
(***************************************************************************)
InitTimer ==
    /\ InitCold
    /\ joypad = Joypad_default
    /\ image = Empty
    /\ steps = 0
    /\ hist = NoHist
    /\ last = NoLast
    /\ cart = NoCart
    /\ audio = NoAudio
    /\ apu = NoApu

\* GPU::next(elapsed) for an instruction of 4 or 12 T-cycles
TimerNext ==
    /\ steps < MaxTimerOps
    /\ \E elapsed \in {4, 12} :
          /\ ppu' = GPU_next(ppu, elapsed).ppu
          /\ hist' = [hist EXCEPT !.since = @ + elapsed]
          /\ last' = [NoLast EXCEPT !.op = "next", !.elapsed = elapsed,
                                    !.pre = ppu]
    /\ steps' = steps + 1
    /\ UNCHANGED <<cpu, bus, joypad, image, cart, audio, apu>>

\* GPU::write_vram(address, value) on a timer register: the PPU and the
\* records after it
TimerStore(address, value) ==
    LET w == write_vram(ppu, address, value) IN
    [ppu |-> w.ppu,
     hist |-> [hist EXCEPT !.aborted = w.aborted, !.since = 0,
                           !.tima0 = w.ppu.tima],
     last |-> [NoLast EXCEPT !.op = "write", !.addr = address,
                             !.value = value, !.pre = ppu]]

\* TAC (0xff07): enabled at 262144 Hz, enabled at 65536 Hz, disabled
WriteTac ==
    /\ steps < MaxTimerOps
    /\ \E value \in {5, 6, 1} :
          LET t == TimerStore(65287, value) IN
          ppu' = t.ppu /\ hist' = t.hist /\ last' = t.last
    /\ steps' = steps + 1
    /\ UNCHANGED <<cpu, bus, joypad, image, cart, audio, apu>>

\* TMA (0xff06)
WriteTma ==
    /\ steps < MaxTimerOps
    /\ \E value \in {128, 255} :
          LET t == TimerStore(65286, value) IN
          ppu' = t.ppu /\ hist' = t.hist /\ last' = t.last
    /\ steps' = steps + 1
    /\ UNCHANGED <<cpu, bus, joypad, image, cart, audio, apu>>

\* TIMA (0xff05)
WriteTima ==
    /\ steps < MaxTimerOps
    /\ LET t == TimerStore(65285, 254) IN
          ppu' = t.ppu /\ hist' = t.hist /\ last' = t.last
    /\ steps' = steps + 1
    /\ UNCHANGED <<cpu, bus, joypad, image, cart, audio, apu>>

\* IF (0xff0f): every request but TIMER pending
WriteTimerIf ==
    /\ steps < MaxTimerOps
    /\ LET t == TimerStore(65295, 27) IN
          ppu' = t.ppu /\ hist' = t.hist /\ last' = t.last
    /\ steps' = steps + 1
    /\ UNCHANGED <<cpu, bus, joypad, image, cart, audio, apu>>

NextTimer == TimerNext \/ WriteTac \/ WriteTma \/ WriteTima \/ WriteTimerIf

SpecTimer == InitTimer /\ [][NextTimer]_vars

\* the T-cycles per TIMA increment that TAC bits 1-0 select
Period(tac) ==
    CASE BitAnd(tac, 3) = 1 -> 16
      [] BitAnd(tac, 3) = 2 -> 64
      [] BitAnd(tac, 3) = 3 -> 256
      [] OTHER -> 1024

\* C14: with TAC bit 2 set TIMA increments once per Period(TAC) T-cycles, so
\* over the T-cycles since the last store to a timer register it has advanced
\* by their quotient by the period, or one more for the phase of the counter
\* (stated short of an overflow); with TAC bit 2 clear TIMA does not change
C14_TimaRate ==
    LET n == hist.since \div Period(ppu.tac) IN
    IF Bit(ppu.tac, 2) = 0
    THEN ppu.tima = hist.tima0
    ELSE hist.tima0 + n + 1 <= 255 =>
             ppu.tima \in {hist.tima0 + n, hist.tima0 + n + 1}

\* C14 fails with TAC = 0x05 after one instruction of 12 T-cycles: TIMA has
\* advanced by 3, not by 0 or 1
C14_TimaFourTimesFast ==
    /\ ppu.tac = 5
    /\ last.op = "next"
    /\ hist.since = 12
    /\ hist.tima0 = 0
    /\ ppu.tima = 3

\* the TIMA increments that GPU::handle_timer makes in the last call
Increments ==
    IF Bit(last.pre.tac, 2) = 0 THEN 0
    ELSE (last.pre.timer_clock + 4 * last.elapsed) \div Period(last.pre.tac)

\* whether one of them took TIMA past 0xff
Overflowed == last.pre.tima + Increments > 255

\* C15: a call of the timer that takes TIMA past 0xff reloads TIMA from TMA
\* (and goes on counting from there, reloading at each further overflow) and
\* sets the TIMER bit of IF; a call that
\* does not leaves the TIMER bit as it was; no call changes another bit of IF
C15_OverflowReloads ==
    last.op = "next" =>
        LET rest == last.pre.tima + Increments - 256 IN
        /\ BitClear(ppu.interrupt_flag, TIMER)
              = BitClear(last.pre.interrupt_flag, TIMER)
        /\ BitAnd(ppu.interrupt_flag, TIMER) =
              IF Overflowed THEN TIMER
              ELSE BitAnd(last.pre.interrupt_flag, TIMER)
        /\ ppu.tima =
              IF ~Overflowed THEN last.pre.tima + Increments
              ELSE last.pre.tma + (rest % (256 - last.pre.tma))

\* an overflow with TMA = 0x80: TIMA went 0xfe, 0xff, 0x80, 0x81 and the TIMER
\* bit came up
C15_Witness ==
    /\ last.op = "next"
    /\ last.pre.tima = 254
    /\ last.pre.tma = 128
    /\ Increments = 3
    /\ Overflowed
    /\ last.pre.interrupt_flag = 27
    /\ ppu.tima = 129
    /\ ppu.interrupt_flag = 31

(***************************************************************************)
(* DIV: GPU::next with the LCD off for instructions of one length (20 or   *)
(* 24 T-cycles) throughout a behaviour, between stores to 0xff04 through   *)
(* GPU::write_vram and through MemoryBus::write_byte; MaxDivOps operations *)
(* in all.                                                                 *)
(***************************************************************************)
InitDiv ==
    /\ InitCold
    /\ joypad = Joypad_default
    /\ image = Empty
    /\ steps = 0
    /\ hist = NoHist
    /\ last = NoLast
    /\ cart = NoCart
    /\ audio = NoAudio
    /\ apu = NoApu

\* GPU::next(elapsed)
DivNext ==
    /\ steps < MaxDivOps
    /\ \E elapsed \in {20, 24} :
          /\ last.elapsed \in {0, elapsed}
          /\ ppu' = GPU_next(ppu, elapsed).ppu
          /\ hist' = [hist EXCEPT !.div_since = @ + elapsed]
          /\ last' = [last EXCEPT !.op = "next", !.elapsed = elapsed]
    /\ steps' = steps + 1
    /\ UNCHANGED <<cpu, bus, joypad, image, cart, audio, apu>>

\* GPU::write_vram(0xff04, value): the register write itself
WriteDiv ==
    /\ steps < MaxDivOps
    /\ hist.writes < MaxWrites
    /\ \E value \in {0, 255} :
          LET w == write_vram(ppu, 65284, value) IN
          /\ ppu' = w.ppu
          /\ hist' = [hist EXCEPT !.aborted = w.aborted, !.div_since = 0,
                                  !.writes = @ + 1]
          /\ last' = [last EXCEPT !.op = "write", !.addr = 65284,
                                  !.value = value]
    /\ steps' = steps + 1
    /\ UNCHANGED <<cpu, bus, joypad, image, cart, audio, apu>>

\* MemoryBus::write_byte(0xff04, value): the write as the CPU makes it
BusWriteDiv ==
    /\ steps < MaxDivOps
    /\ hist.writes < MaxWrites
    /\ \E value \in {0, 255} :
          LET m == write_byte(Machine, 65284, value) IN
          /\ bus' = m.bus
          /\ ppu' = m.ppu
          /\ hist' = [hist EXCEPT !.aborted = m.aborted, !.div_since = 0,
                                  !.writes = @ + 1]
          /\ last' = [last EXCEPT !.op = "bus write", !.addr = 65284,
                                  !.value = value]
    /\ steps' = steps + 1
    /\ UNCHANGED <<cpu, joypad, image, cart, audio, apu>>

NextDiv == DivNext \/ WriteDiv \/ BusWriteDiv

SpecDiv == InitDiv /\ [][NextDiv]_vars

\* C16: DIV is the upper byte of a 16-bit counter of T-cycles that a write to
\* 0xff04 zeroes: it reads the T-cycles since the last such write (or since
\* the machine was built), divided by 256
C16_DivCountsFromWrite ==
    read_vram(ppu, 65284) = (hist.div_since \div 256) % 256

\* C16 fails when DIV is written 240 T-cycles after the machine was built and
\* 24 T-cycles pass: DIV reads 1 although only 24 T-cycles have passed since
\* the write
C16_DivEarly ==
    /\ last.op = "next"
    /\ last.elapsed = 24
    /\ hist.writes = 1
    /\ hist.div_since = 24
    /\ read_vram(ppu, 65284) = 1

(***************************************************************************)
(* mbc.rs: the cartridge controller.  A ROM image is the record [type,     *)
(* size, ram, len] of its header bytes 0x147, 0x148, 0x149 and its length;  *)
(* every other byte of it holds the number of its 16 KiB bank.  cart is    *)
(* the MBCWrapper built from it, or [variant |-> "panic"] when the         *)
(* constructor panicked.                                                   *)
(***************************************************************************)
\* rom[idx] for idx < rom.len()
RomByte(rom, idx) ==
    CASE idx = 327 -> rom.type                                   \* 0x147
      [] idx = 328 -> rom.size                                   \* 0x148
      [] idx = 329 -> rom.ram                                    \* 0x149
      [] OTHER -> (idx \div 16384) % 256

\* impl TryFrom<u8> for MBC, then unwrap_or_default
MBC_try_from(value) ==
    CASE value = 0 -> "NoMbc"
      [] value = 1 -> "Mbc1"
      [] value = 2 -> "Mbc1ExternalRam"
      [] value = 3 -> "Mbc1BatteryExternalRam"
      [] value = 5 -> "Mbc2"
      [] value = 6 -> "Mbc2ExternalRam"
      [] value = 8 -> "RomExternatRam"
      [] value = 9 -> "RomBatteryExternatRam"
      [] OTHER -> "NoMbc"

ram_banks(v) ==
    CASE v \in {1, 2} -> 1
      [] v = 3 -> 4
      [] v = 4 -> 16
      [] v = 5 -> 8
      [] OTHER -> 0

rom_banks(v) == IF v <= 8 THEN 2 * Pow2(v) ELSE 0

MBC1_new(rom) ==
    [ variant |-> "Mbc1",
      rom |-> rom,
      ram |-> Empty,
      ram_len |-> ram_banks(rom.ram) * 8192,
      mode |-> "RomMode",
      ram_on |-> FALSE,
      rom_bank |-> 1,
      ram_bank |-> 0,
      num_ram_banks |-> ram_banks(rom.ram),
      num_rom_banks |-> rom_banks(rom.size) ]

MBCWrapper_new(rom) ==
    LET mbc == MBC_try_from(rom.type) IN
    CASE mbc = "NoMbc" -> [variant |-> "Mbc0", rom |-> rom]
      [] mbc \in {"Mbc1", "Mbc1BatteryExternalRam", "Mbc1ExternalRam"} ->
            MBC1_new(rom)
      [] OTHER -> [variant |-> "panic"]

\* MBC1::read_rom; bank * 0x4000 | (addr & 0x3fff) is a sum, the bank offset
\* having no bit below 0x4000
MBC1_read_rom(c, addr) ==
    LET bank == IF addr < 16384
                THEN IF c.mode = "RomMode"
                     THEN BitAnd(c.rom_bank, 224) ELSE 0
                ELSE c.rom_bank
        idx == bank * 16384 + (addr % 16384)
    IN IF idx < c.rom.len THEN RomByte(c.rom, idx) ELSE 255

\* MBC1::write_rom for addr in 0x0000..=0x7fff: the controller after it and
\* whether it panicked (the remainder by num_rom_banks = 0)
MBC1_write_rom(c, addr, value) ==
    CASE addr <= 8191 ->
            [cart |-> [c EXCEPT !.ram_on = (value % 16 = 10)],
             aborted |-> FALSE]
      [] addr >= 8192 /\ addr <= 16383 ->
            LET lower_bits == IF value % 32 = 0 THEN 1 ELSE value % 32 IN
            IF c.num_rom_banks = 0
            THEN [cart |-> c, aborted |-> TRUE]
            ELSE [cart |-> [c EXCEPT !.rom_bank =
                               BitOr(BitAnd(c.rom_bank, 96), lower_bits)
                                   % c.num_rom_banks],
                  aborted |-> FALSE]
      [] addr >= 16384 /\ addr <= 24575 ->
            LET c1 == IF c.num_rom_banks > 32
                      THEN [c EXCEPT !.rom_bank =
                               BitOr(BitAnd(c.rom_bank, 31),
                                     ((value % 4) % (c.num_rom_banks \div 32))
                                         * 32)]
                      ELSE c
                c2 == IF c.num_ram_banks > 1
                      THEN [c1 EXCEPT !.ram_bank = value % 4]
                      ELSE c1
            IN [cart |-> c2, aborted |-> FALSE]
      [] OTHER ->
            [cart |-> [c EXCEPT !.mode = IF value % 2 = 0 THEN "RomMode"
                                         ELSE "RamMode"],
             aborted |-> FALSE]

\* MBC1::read_ram; -1 for the panic of self.ram[..] past the RAM
MBC1_read_ram(c, addr) ==
    LET bank == IF c.mode = "RamMode" THEN c.ram_bank ELSE 0
        idx == bank * 8192 + (addr % 8192)
    IN IF ~c.ram_on THEN 255
       ELSE IF idx < c.ram_len THEN Get(c.ram, idx) ELSE -1

\* MBC1::write_ram
MBC1_write_ram(c, addr, value) ==
    LET bank == IF c.mode = "RamMode" THEN c.ram_bank ELSE 0
        idx == bank * 8192 + (addr % 8192)
    IN IF c.ram_on /\ idx < c.ram_len
       THEN [c EXCEPT !.ram = Put(@, idx, value)]
       ELSE c

\* MBCWrapper::read_ram
read_ram(c, addr) ==
    IF c.variant = "Mbc0" THEN 0 ELSE MBC1_read_ram(c, addr)

\* MBCWrapper::write_ram
write_ram(c, addr, value) ==
    IF c.variant = "Mbc0" THEN c ELSE MBC1_write_ram(c, addr, value)

\* MBCWrapper::read_rom; -1 for the panic of rom[addr] past the image
read_rom(c, addr) ==
    IF c.variant = "Mbc0"
    THEN IF addr < c.rom.len THEN RomByte(c.rom, addr) ELSE -1
    ELSE MBC1_read_rom(c, addr)

\* MBCWrapper::write_rom
write_rom(c, addr, value) ==
    IF c.variant = "Mbc0" THEN [cart |-> c, aborted |-> FALSE]
    ELSE MBC1_write_rom(c, addr, value)

\* a cartridge image of 2, 4 or 64 banks with a header that says so, or of
\* two banks with the size byte 0x09 that rom_banks does not know; of type
\* ROM only, MBC1, MBC1+RAM+BATTERY, MBC2 or MBC3+RAM+BATTERY (0x13); with
\* the RAM size byte 0x03 (four banks) or 0x00 (none)
InitMbc ==
    /\ InitCold
    /\ joypad = Joypad_default
    /\ image = Empty
    /\ steps = 0
    /\ hist = NoHist
    /\ last = NoLast
    /\ audio = NoAudio
    /\ apu = NoApu
    /\ \E type \in {0, 1, 3, 5, 19} : \E size \in {0, 1, 5, 9} :
       \E ram \in {3, 0} :
          cart = MBCWrapper_new(
                     [type |-> type, size |-> size, ram |-> ram,
                      len |-> IF size = 9 THEN 32768
                              ELSE 16384 * rom_banks(size)])

\* MBCWrapper::write_rom(addr, value) on a running core: RAM enable, the low
\* and the high bank register and the mode register
CartWriteRom ==
    /\ steps < MaxCartOps
    /\ cart.variant # "panic"
    /\ ~hist.aborted
    /\ \E addr \in {0, 8448, 16384, 24576} : \E value \in {0, 1, 4, 5, 10} :
          LET w == write_rom(cart, addr, value) IN
          /\ cart' = w.cart
          /\ hist' = [hist EXCEPT !.aborted = w.aborted]
          /\ last' = [NoLast EXCEPT !.op = "write", !.addr = addr,
                                    !.value = value, !.pre = cart]
    /\ steps' = steps + 1
    /\ UNCHANGED <<cpu, bus, ppu, joypad, image, audio, apu>>

\* MBCWrapper::read_rom(addr) on a running core
CartReadRom ==
    /\ steps < MaxCartOps
    /\ cart.variant # "panic"
    /\ ~hist.aborted
    /\ \E addr \in {336, 16384, 32767} :
          LET v == read_rom(cart, addr) IN
          /\ hist' = [hist EXCEPT !.aborted = (v = -1)]
          /\ last' = [NoLast EXCEPT !.op = "read", !.addr = addr,
                                    !.value = v, !.pre = cart]
    /\ steps' = steps + 1
    /\ UNCHANGED <<cpu, bus, ppu, joypad, image, cart, audio, apu>>

\* MBCWrapper::read_ram(addr) on a running core
CartReadRam ==
    /\ steps < MaxCartOps
    /\ cart.variant # "panic"
    /\ ~hist.aborted
    /\ \E addr \in {40960, 49151} :
          LET v == read_ram(cart, addr) IN
          /\ hist' = [hist EXCEPT !.aborted = (v = -1)]
          /\ last' = [NoLast EXCEPT !.op = "read", !.addr = addr,
                                    !.value = v, !.pre = cart]
    /\ steps' = steps + 1
    /\ UNCHANGED <<cpu, bus, ppu, joypad, image, cart, audio, apu>>

\* MBCWrapper::write_ram(addr, value) on a running core
CartWriteRam ==
    /\ steps < MaxCartOps
    /\ cart.variant # "panic"
    /\ ~hist.aborted
    /\ \E addr \in {40960} : \E value \in {90} :
          /\ cart' = write_ram(cart, addr, value)
          /\ last' = [NoLast EXCEPT !.op = "write", !.addr = addr,
                                    !.value = value, !.pre = cart]
    /\ steps' = steps + 1
    /\ UNCHANGED <<cpu, bus, ppu, joypad, image, hist, audio, apu>>

NextMbc == CartWriteRom \/ CartReadRom \/ CartReadRam \/ CartWriteRam

SpecMbc == InitMbc /\ [][NextMbc]_vars

\* the bank the low, if any, and the high bank register select together after
\* a write of v to the low one
Selected(c, v) ==
    BitOr(BitAnd(c.rom_bank, 96), IF v % 32 = 0 THEN 1 ELSE v % 32)

\* C17: on MBC1, after a write of v to 0x2000-0x3fff the reads of 0x4000-0x7fff
\* return the bytes of the bank whose low five bits are v & 0x1f, 0 replaced
\* by 1, and whose upper two bits are as before (stated for a bank that the
\* image holds), and the bank mapped there is never bank 0
C17_BankSelect ==
    (cart.variant = "Mbc1" /\ ~hist.aborted) =>
        /\ (/\ last.op = "write"
            /\ last.addr = 8448
            /\ Selected(last.pre, last.value) * 16384 < cart.rom.len) =>
               \A a \in {16384, 32767} :
                   read_rom(cart, a) = Selected(last.pre, last.value)
        /\ read_rom(cart, 16384) # 0

\* C17 fails on an image of four banks when 0x04 is written to 0x2100: the
\* reads of 0x4000-0x7fff return bank 0
C17_BankZeroMapped ==
    /\ cart.variant = "Mbc1"
    /\ cart.num_rom_banks = 4
    /\ last.op = "write"
    /\ last.addr = 8448
    /\ last.value = 4
    /\ cart.rom_bank = 0
    /\ read_rom(cart, 16384) = 0
    /\ read_rom(cart, 32767) = 0

\* C18: on MBC1 the reads of 0x0000-0x3fff come from bank 0 in ROM mode and
\* from the bank of the upper two bank bits alone, (upper << 5) & 0xe0, in
\* RAM mode, whatever bank-select and mode writes came before
C18_LowAreaByMode ==
    (cart.variant = "Mbc1" /\ ~hist.aborted) =>
        read_rom(cart, 336) = IF cart.mode = "RomMode" THEN 0
                              ELSE BitAnd(cart.rom_bank, 224)

\* C18 fails on an image of 64 banks once 0x01 is written to 0x4000: in ROM
\* mode, the mode after construction, 0x0150 reads from bank 0x20
C18_LowAreaBankedInRomMode ==
    /\ cart.variant = "Mbc1"
    /\ cart.num_rom_banks = 64
    /\ cart.mode = "RomMode"
    /\ cart.rom_bank = 33
    /\ last.op = "read"
    /\ last.addr = 336
    /\ last.value = 32

\* C19: a cartridge whose header byte 0x147 names a controller other than
\* none (0x00) or MBC1 (0x01-0x03) fails construction; no running controller
\* is built from it
C19_UnsupportedFails ==
    cart.variant # "panic" => cart.rom.type \in {0, 1, 2, 3}

\* C19 fails for an MBC3+RAM+BATTERY cartridge (0x13): the controller built is
\* MBC0, the one for no controller, and it answers reads
C19_Mbc3RunsAsNoMbc ==
    /\ cart.variant = "Mbc0"
    /\ cart.rom.type = 19
    /\ last.op = "read"
    /\ last.addr = 16384
    /\ last.value = 1

(***************************************************************************)
(* The shared audio buffer: audio.buffer is the length of the Vec behind   *)
(* the mutex, audio.clock the sampler's clock.  The emulator thread pushes *)
(* in AudioSampler::tick, the audio callback drains in cpal_thread; each   *)
(* holds the lock for the whole of its access, so the two interleave as    *)
(* whole actions.                                                          *)
(***************************************************************************)
\* AudioSampler::tick
tick(a) ==
    LET clock == a.clock + 1 IN
    IF clock > 95
    THEN [buffer |-> a.buffer + 1, clock |-> clock - 95]
    ELSE [a EXCEPT !.clock = clock]

\* the ticks of Core::step up to and including the next push
RECURSIVE TicksToPush(_)
TicksToPush(a) ==
    LET b == tick(a) IN
    IF b.buffer > a.buffer THEN b ELSE TicksToPush(b)

\* cpal_thread for an output slice of out_len values
cpal_thread(a, out_len) ==
    LET half == out_len \div 2
        outlen == IF half < a.buffer THEN half ELSE a.buffer
        left == a.buffer - outlen
    IN [a EXCEPT !.buffer = IF left > 2048 THEN 512 ELSE left]

InitAudio ==
    /\ InitCold
    /\ joypad = Joypad_default
    /\ image = Empty
    /\ steps = 0
    /\ hist = NoHist
    /\ last = NoLast
    /\ cart = NoCart
    /\ audio = NoAudio
    /\ apu = NoApu

\* the emulator thread: sampler ticks through the next push
SamplerPush ==
    /\ audio.buffer < MaxAudioLen
    /\ audio' = TicksToPush(audio)
    /\ last' = [NoLast EXCEPT !.op = "push", !.value = audio.buffer]
    /\ UNCHANGED <<cpu, bus, ppu, joypad, image, steps, hist, cart, apu>>

\* the audio callback, asked for 512 or 2 stereo frames
CallbackDrain ==
    /\ \E out_len \in {1024, 4} :
          /\ audio' = cpal_thread(audio, out_len)
          /\ last' = [NoLast EXCEPT !.op = "drain", !.value = audio.buffer]
    /\ UNCHANGED <<cpu, bus, ppu, joypad, image, steps, hist, cart, apu>>

NextAudio == SamplerPush \/ CallbackDrain

SpecAudio == InitAudio /\ [][NextAudio]_vars

\* C20: under every interleaving of pushes and drains the shared buffer holds
\* at most 2048 samples, also when the callback does not run
C20_BufferBounded == audio.buffer <= 2048

\* C20 fails when the callback does not run: a push onto a buffer of 4095
\* samples, the last of a run of pushes, leaves 4096
C20_BufferGrows ==
    /\ last.op = "push"
    /\ last.value = 4095
    /\ audio.buffer = 4096

(***************************************************************************)
(* sound/: the APU.  Records carry the fields of the structs; a method     *)
(* Struct::name is the operator Struct_name.  u8 arithmetic that the       *)
(* inputs of the model could overflow is reduced modulo 256.               *)
(***************************************************************************)
LengthCounter_default ==
    [length |-> 0, full_length |-> 64, enabled |-> FALSE, frame_sequencer |-> 0]

\* LengthCounter::set_nr14
LengthCounter_set_nr14(lc, v) ==
    LET enable == Bit(v, 6) # 0
        trigger == Bit(v, 7) # 0
        odd == Bit(lc.frame_sequencer, 0) # 0
        l1 == IF lc.enabled
              THEN IF trigger /\ lc.length = 0
                   THEN IF enable /\ odd THEN lc.full_length - 1
                        ELSE lc.full_length
                   ELSE lc.length
              ELSE IF enable
              THEN IF odd
                   THEN LET d == IF lc.length # 0 THEN lc.length - 1
                                 ELSE lc.length
                        IN IF trigger /\ d = 0 THEN lc.full_length - 1 ELSE d
                   ELSE lc.length
              ELSE IF trigger /\ lc.length = 0 THEN lc.full_length
                   ELSE lc.length
    IN [lc EXCEPT !.length = l1, !.enabled = enable]

\* LengthCounter::set_length
LengthCounter_set_length(lc, v) ==
    [lc EXCEPT !.length = IF lc.length = 0 THEN lc.full_length
                          ELSE W8(lc.full_length - v)]

\* impl Tick for LengthCounter
LengthCounter_tick(lc) ==
    IF lc.enabled /\ lc.length > 0 THEN [lc EXCEPT !.length = @ - 1] ELSE lc

\* LengthCounter::power_off, which the channels call: the length stays, the
\* enable bit of NRx4 goes
LengthCounter_power_off(lc) == [lc EXCEPT !.enabled = FALSE]

\* ChannelCommon::new
ChannelCommon_new ==
    [dac_enabled |-> FALSE, output |-> 0, ch_enabled |-> FALSE,
     length_counter |-> LengthCounter_default]

\* ChannelCommon::tick_channel_length
tick_channel_length(c) ==
    LET lc == LengthCounter_tick(c.length_counter) IN
    [c EXCEPT !.length_counter = lc,
              !.ch_enabled = IF lc.enabled /\ lc.length = 0 THEN FALSE ELSE @]

\* ChannelCommon::is_channel_enabled
is_channel_enabled(c) == c.dac_enabled /\ c.ch_enabled

VolumeEnvelope_default ==
    [timer |-> 0, period |-> 0, starting_volume |-> 0, volume |-> 0,
     finished |-> TRUE, add_mode |-> FALSE]

\* VolumeEnvelope::set_nr12
VolumeEnvelope_set_nr12(e, v) ==
    [e EXCEPT !.starting_volume = v \div 16, !.add_mode = Bit(v, 3) # 0,
              !.period = v % 8]

\* VolumeEnvelope::get_volume
get_volume(e) == IF e.period > 0 THEN e.volume ELSE e.starting_volume

\* VolumeEnvelope::trigger
VolumeEnvelope_trigger(e) ==
    [e EXCEPT !.volume = e.starting_volume, !.finished = FALSE,
              !.timer = IF e.period # 0 THEN e.period ELSE 8]

\* VolumeEnvelope::power_off
VolumeEnvelope_power_off(e) ==
    [e EXCEPT !.finished = FALSE, !.timer = 0, !.starting_volume = 0,
              !.add_mode = FALSE, !.period = 0, !.volume = 0]

\* impl Tick for VolumeEnvelope
VolumeEnvelope_tick(e) ==
    IF e.finished THEN e
    ELSE LET timer == IF e.timer > 0 THEN e.timer - 1 ELSE 0 IN
         IF timer # 0 THEN [e EXCEPT !.timer = timer]
         ELSE LET v1 == IF e.add_mode /\ e.volume < 15 THEN e.volume + 1
                        ELSE e.volume
                  v2 == IF ~e.add_mode /\ v1 > 0 THEN v1 - 1 ELSE v1
              IN [e EXCEPT !.timer = IF e.period # 0 THEN e.period ELSE 8,
                           !.volume = v2,
                           !.finished = (v2 = 0 \/ v2 = 15)]

FrequencySweep_default ==
    [negate |-> FALSE, shadow_frequency |-> 0, has_negated |-> FALSE,
     enabled |-> FALSE, period |-> 0, shift |-> 0, timer |-> 0,
     overflow |-> FALSE, frequency |-> 0]

\* FrequencySweep::calculate: the sweep after it and the value returned
calculate(f) ==
    LET part == f.shadow_frequency \div Pow2(f.shift)
        new_freq == IF f.negate THEN f.shadow_frequency - part
                    ELSE f.shadow_frequency + part
    IN [sweep |-> [f EXCEPT !.has_negated = IF f.negate THEN TRUE ELSE @,
                            !.overflow = IF new_freq > 2047 THEN TRUE ELSE @],
        new_freq |-> new_freq]

\* FrequencySweep::set_nr10
FrequencySweep_set_nr10(f, v) ==
    LET negate == Bit(v, 3) # 0 IN
    [f EXCEPT !.period = (v \div 16) % 8, !.negate = negate, !.shift = v % 8,
              !.overflow = IF f.has_negated /\ ~negate THEN TRUE ELSE @]

\* FrequencySweep::set_nr13
FrequencySweep_set_nr13(f, v) ==
    [f EXCEPT !.frequency = BitAnd(@, 1792) + v]

\* FrequencySweep::set_nr14
FrequencySweep_set_nr14(f, v) ==
    [f EXCEPT !.frequency = BitAnd(@, 255) + (v % 8) * 256]

\* FrequencySweep::trigger
FrequencySweep_trigger(f) ==
    LET g == [f EXCEPT !.overflow = FALSE, !.has_negated = FALSE,
                       !.shadow_frequency = f.frequency,
                       !.timer = IF f.period # 0 THEN f.period ELSE 8,
                       !.enabled = (f.period # 0 \/ f.shift # 0)]
    IN IF g.shift > 0 THEN calculate(g).sweep ELSE g

\* FrequencySweep::power_off
FrequencySweep_power_off(f) == FrequencySweep_default

\* impl Tick for FrequencySweep
FrequencySweep_tick(f) ==
    IF ~f.enabled THEN f
    ELSE LET timer == IF f.timer > 0 THEN f.timer - 1 ELSE 0 IN
         IF timer # 0 THEN [f EXCEPT !.timer = timer]
         ELSE LET g == [f EXCEPT !.timer = IF f.period # 0 THEN f.period
                                           ELSE 8]
                  c == calculate(g)
              IN IF g.period = 0 THEN g
                 ELSE IF ~c.sweep.overflow /\ g.shift # 0
                 THEN calculate([c.sweep EXCEPT
                                    !.shadow_frequency = c.new_freq,
                                    !.frequency = c.new_freq]).sweep
                 ELSE c.sweep

\* DUTY_TABLE[duty][sequence], both counted from 0
DUTY_TABLE(duty, sequence) ==
    << <<0, 0, 0, 0, 0, 0, 0, 1>>,
       <<1, 0, 0, 0, 0, 0, 0, 1>>,
       <<1, 0, 0, 0, 0, 1, 1, 1>>,
       <<0, 1, 1, 1, 1, 1, 1, 0>> >>[duty + 1][sequence + 1]

\* the NRx2 arm shared by channels 1, 2 and 4
WriteNrx2(c, v) ==
    LET dac == BitAnd(v, 248) # 0 IN
    [c EXCEPT !.common.dac_enabled = dac,
              !.common.ch_enabled = dac /\ c.common.ch_enabled,
              !.volume_envelope = VolumeEnvelope_set_nr12(@, v)]

Channel1_default ==
    [common |-> ChannelCommon_new, duty |-> 0, timer |-> 0, sequence |-> 0,
     volume_envelope |-> VolumeEnvelope_default,
     frequency_sweep |-> FrequencySweep_default]

\* Channel1::trigger
Channel1_trigger(c) ==
    LET sweep == FrequencySweep_trigger(c.frequency_sweep) IN
    [c EXCEPT !.timer = (2048 - c.frequency_sweep.frequency) * 4,
              !.volume_envelope = VolumeEnvelope_trigger(@),
              !.frequency_sweep = sweep,
              !.common.ch_enabled = IF ~sweep.overflow
                                    THEN c.common.dac_enabled ELSE FALSE]

\* the NRx4 arm after the channel's own part: the length counter takes the
\* write, then the channel is switched off or is to be triggered:
\* [chan, trigger]
WriteNrx4(c, v) ==
    LET lc == LengthCounter_set_nr14(c.common.length_counter, v)
        d == [c EXCEPT !.common.length_counter = lc]
    IN IF lc.enabled /\ lc.length = 0
       THEN [chan |-> [d EXCEPT !.common.ch_enabled = FALSE],
             trigger |-> FALSE]
       ELSE [chan |-> d, trigger |-> Bit(v, 7) # 0]

\* impl Mem for Channel1: write_byte
Channel1_write(c, addr, v) ==
    CASE addr = 65296 ->                                           \* 0xff10
            LET sweep == FrequencySweep_set_nr10(c.frequency_sweep, v) IN
            [c EXCEPT !.frequency_sweep = sweep,
                      !.common.ch_enabled = IF sweep.overflow THEN FALSE
                                            ELSE @]
      [] addr = 65297 ->                                           \* 0xff11
            [c EXCEPT !.duty = v \div 64,
                      !.common.length_counter =
                          LengthCounter_set_length(@, v % 64)]
      [] addr = 65298 -> WriteNrx2(c, v)                           \* 0xff12
      [] addr = 65299 ->                                           \* 0xff13
            [c EXCEPT !.frequency_sweep = FrequencySweep_set_nr13(@, v)]
      [] OTHER ->                                                  \* 0xff14
            LET o == WriteNrx4([c EXCEPT !.frequency_sweep =
                                            FrequencySweep_set_nr14(@, v)],
                               v)
            IN IF o.trigger THEN Channel1_trigger(o.chan) ELSE o.chan

\* the timer arm of the square channels' tick: the output for the next
\* sequence step, by whether the channel counts as enabled
SquareOutput(c, on) ==
    LET sequence == (c.sequence + 1) % 7 IN
    [c EXCEPT !.sequence = sequence,
              !.common.output =
                  IF on /\ DUTY_TABLE(c.duty, sequence) = 1
                  THEN get_volume(c.volume_envelope) ELSE 0]

\* impl Tick for Channel1
Channel1_tick(c) ==
    LET timer == IF c.timer > 0 THEN c.timer - 1 ELSE 0 IN
    IF timer # 0 THEN [c EXCEPT !.timer = timer]
    ELSE SquareOutput([c EXCEPT !.timer =
                                    (2048 - c.frequency_sweep.frequency) * 4],
                      is_channel_enabled(c.common))

\* Channel1::tick_frequency_sweep
tick_frequency_sweep(c) ==
    LET sweep == FrequencySweep_tick(c.frequency_sweep) IN
    [c EXCEPT !.frequency_sweep = sweep,
              !.common.ch_enabled = IF sweep.overflow THEN FALSE ELSE @]

\* the part that the four power_off methods share
CommonPowerOff(c) ==
    [c EXCEPT !.common.length_counter = LengthCounter_power_off(@),
              !.common.ch_enabled = FALSE,
              !.common.dac_enabled = FALSE]

\* Channel1::power_off
Channel1_power_off(c) ==
    [CommonPowerOff(c) EXCEPT
        !.frequency_sweep = FrequencySweep_power_off(@),
        !.volume_envelope = VolumeEnvelope_power_off(@),
        !.sequence = 0, !.duty = 0]

Channel2_default ==
    [common |-> ChannelCommon_new, timer |-> 0, sequence |-> 0, duty |-> 0,
     frequency |-> 0, volume_envelope |-> VolumeEnvelope_default]

\* Channel2::trigger
Channel2_trigger(c) ==
    [c EXCEPT !.timer = (2048 - c.frequency) * 4,
              !.volume_envelope = VolumeEnvelope_trigger(@),
              !.common.ch_enabled = c.common.dac_enabled]

\* impl Mem for Channel2: write_byte
Channel2_write(c, addr, v) ==
    CASE addr = 65301 -> c                                         \* 0xff15
      [] addr = 65302 ->                                           \* 0xff16
            [c EXCEPT !.duty = v \div 64,
                      !.common.length_counter =
                          LengthCounter_set_length(@, v % 64)]
      [] addr = 65303 -> WriteNrx2(c, v)                           \* 0xff17
      [] addr = 65304 ->                                           \* 0xff18
            [c EXCEPT !.frequency = BitAnd(@, 1792) + v]
      [] OTHER ->                                                  \* 0xff19
            LET o == WriteNrx4([c EXCEPT !.frequency =
                                            BitAnd(@, 255) + (v % 8) * 256],
                               v)
            IN IF o.trigger THEN Channel2_trigger(o.chan) ELSE o.chan

\* impl Tick for Channel2
Channel2_tick(c) ==
    LET timer == IF c.timer > 0 THEN c.timer - 1 ELSE 0 IN
    IF timer # 0 THEN [c EXCEPT !.timer = timer]
    ELSE SquareOutput([c EXCEPT !.timer = (2048 - c.frequency) * 4],
                      c.common.ch_enabled)

\* Channel2::power_off
Channel2_power_off(c) ==
    [CommonPowerOff(c) EXCEPT
        !.volume_envelope = VolumeEnvelope_power_off(@),
        !.sequence = 0, !.frequency = 0, !.duty = 0]

Channel3_default ==
    [common |-> ChannelCommon_new, timer |-> 0, position |-> 4,
     ticks_since_read |-> 0, frequency |-> 0, volume_code |-> 0,
     last_address |-> 0, wave_table |-> Empty]

\* Channel3::trigger
Channel3_trigger(c) ==
    LET pos == c.position \div 2
        base == pos - (pos % 4)
        wave == IF is_channel_enabled(c.common) /\ c.timer = 2
                THEN IF pos < 4
                     THEN Put(c.wave_table, 0, Get(c.wave_table, pos))
                     ELSE [j \in DOMAIN c.wave_table \cup {0, 1, 2, 3} |->
                              IF j < 4 THEN Get(c.wave_table, base + j)
                              ELSE c.wave_table[j]]
                ELSE c.wave_table
    IN [c EXCEPT !.wave_table = wave, !.timer = 6, !.position = 0,
                 !.last_address = 0,
                 !.common.ch_enabled = c.common.dac_enabled]

\* impl Mem for Channel3: write
Channel3_write(c, addr, v) ==
    CASE addr >= 65328 /\ addr <= 65343 ->                  \* 0xff30..=0xff3f
            IF is_channel_enabled(c.common)
            THEN IF c.ticks_since_read < 2
                 THEN [c EXCEPT !.wave_table = Put(@, c.last_address, v)]
                 ELSE c
            ELSE [c EXCEPT !.wave_table = Put(@, addr - 65328, v)]
      [] addr = 65306 ->                                           \* 0xff1a
            [c EXCEPT !.common.dac_enabled = Bit(v, 7) # 0,
                      !.common.ch_enabled = Bit(v, 7) # 0 /\ @]
      [] addr = 65307 ->                                           \* 0xff1b
            [c EXCEPT !.common.length_counter =
                          LengthCounter_set_length(@, v)]
      [] addr = 65308 ->                                           \* 0xff1c
            [c EXCEPT !.volume_code = (v \div 32) % 4]
      [] addr = 65309 ->                                           \* 0xff1d
            [c EXCEPT !.frequency = BitAnd(@, 1792) + v]
      [] OTHER ->                                                  \* 0xff1e
            LET o == WriteNrx4([c EXCEPT !.frequency =
                                            BitAnd(@, 255) + (v % 8) * 256],
                               v)
            IN IF o.trigger THEN Channel3_trigger(o.chan) ELSE o.chan

\* impl Tick for Channel3
Channel3_tick(c) ==
    LET c1 == [c EXCEPT !.ticks_since_read = @ + 1,
                        !.timer = IF @ > 0 THEN @ - 1 ELSE 0]
        last_address == c.position \div 2
        byte == Get(c.wave_table, last_address)
        nibble == IF c.position % 2 = 1 THEN byte % 16 ELSE byte \div 16
    IN IF c1.timer # 0 THEN c1
       ELSE IF is_channel_enabled(c.common)
       THEN [c1 EXCEPT !.timer = (2048 - c.frequency) * 2,
                       !.ticks_since_read = 0,
                       !.last_address = last_address,
                       !.common.output =
                           IF c.volume_code > 0
                           THEN nibble \div Pow2(c.volume_code - 1) ELSE 0,
                       !.position = (c.position + 1) % 32]
       ELSE [c1 EXCEPT !.timer = (2048 - c.frequency) * 2,
                       !.common.output = 0]

\* Channel3::power_off
Channel3_power_off(c) ==
    [CommonPowerOff(c) EXCEPT
        !.position = 0, !.frequency = 0, !.volume_code = 0,
        !.ticks_since_read = 0, !.last_address = 0]

Channel4_default ==
    [common |-> ChannelCommon_new, timer |-> 0, clock_shift |-> 0,
     width_mode |-> FALSE, divisor_code |-> 0, lfsr |-> 32767,
     volume_envelope |-> VolumeEnvelope_default]

\* divisors[divisor_code] << clock_shift in u8, for clock_shift < 8
Channel4Period(c) ==
    W8(<<8, 16, 32, 48, 64, 80, 96, 112>>[c.divisor_code + 1]
           * Pow2(c.clock_shift))

\* Channel4::trigger
Channel4_trigger(c) ==
    [c EXCEPT !.volume_envelope = VolumeEnvelope_trigger(@),
              !.timer = Channel4Period(c),
              !.lfsr = 32767,
              !.common.ch_enabled = c.common.dac_enabled]

\* impl Mem for Channel4: write
Channel4_write(c, addr, v) ==
    CASE addr = 65311 -> c                                         \* 0xff1f
      [] addr = 65312 ->                                           \* 0xff20
            [c EXCEPT !.common.length_counter =
                          LengthCounter_set_length(@, v % 64)]
      [] addr = 65313 -> WriteNrx2(c, v)                           \* 0xff21
      [] addr = 65314 ->                                           \* 0xff22
            [c EXCEPT !.clock_shift = v \div 16,
                      !.width_mode = Bit(v, 3) # 0,
                      !.divisor_code = v % 8]
      [] OTHER ->                                                  \* 0xff23
            LET o == WriteNrx4(c, v)
            IN IF o.trigger THEN Channel4_trigger(o.chan) ELSE o.chan

\* impl Tick for Channel4
Channel4_tick(c) ==
    LET timer == IF c.timer > 0 THEN c.timer - 1 ELSE 0
        result == Bit(c.lfsr, 0) # Bit(c.lfsr, 1)
        l1 == BitOr(c.lfsr \div 2, IF result THEN 16384 ELSE 0)
        l2 == IF c.width_mode
              THEN BitOr(BitClear(l1, 64), IF result THEN 64 ELSE 0)
              ELSE l1
    IN IF timer # 0 THEN [c EXCEPT !.timer = timer]
       ELSE [c EXCEPT !.timer = Channel4Period(c),
                      !.lfsr = l2,
                      !.common.output =
                          IF is_channel_enabled(c.common) /\ Bit(l2, 0) = 0
                          THEN get_volume(c.volume_envelope) ELSE 0]

\* Channel4::power_off
Channel4_power_off(c) ==
    [CommonPowerOff(c) EXCEPT
        !.volume_envelope = VolumeEnvelope_power_off(@),
        !.clock_shift = 0, !.width_mode = FALSE, !.divisor_code = 0]

\* impl Default for Apu
Apu_default ==
    [enabled |-> FALSE, left_volume |-> 0, right_volume |-> 0,
     vin_left_enable |-> FALSE, vin_right_enable |-> FALSE,
     channel_enabled |-> 0,
     frame_sequencer |-> 0, frame_sequencer_counter |-> 8192,
     frequency_counter |-> 95,
     channel1 |-> Channel1_default, channel2 |-> Channel2_default,
     channel3 |-> Channel3_default, channel4 |-> Channel4_default]

\* Apu::tick_all_channel_lengths
tick_all_channel_lengths(a) ==
    [a EXCEPT !.channel1.common = tick_channel_length(@),
              !.channel2.common = tick_channel_length(@),
              !.channel3.common = tick_channel_length(@),
              !.channel4.common = tick_channel_length(@)]

\* a faulty variant of the match that clocks the envelopes at step 5
FrameSequencerStep_envelopes_at_5(a) ==
    CASE a.frame_sequencer \in {0, 4} -> tick_all_channel_lengths(a)
      [] a.frame_sequencer = 2 ->
            tick_all_channel_lengths(
                [a EXCEPT !.channel1.frequency_sweep = FrequencySweep_tick(@)])
      [] a.frame_sequencer = 6 ->
            tick_all_channel_lengths(
                [a EXCEPT !.channel1 = tick_frequency_sweep(@)])
      [] a.frame_sequencer = 5 ->
            [a EXCEPT !.channel1.volume_envelope = VolumeEnvelope_tick(@),
                      !.channel2.volume_envelope = VolumeEnvelope_tick(@),
                      !.channel4.volume_envelope = VolumeEnvelope_tick(@)]
      [] OTHER -> a

\* the match on frame_sequencer in Apu::tick
FrameSequencerStep(a) ==
    CASE a.frame_sequencer \in {0, 4} -> tick_all_channel_lengths(a)
      [] a.frame_sequencer = 2 ->
            tick_all_channel_lengths(
                [a EXCEPT !.channel1.frequency_sweep = FrequencySweep_tick(@)])
      [] a.frame_sequencer = 6 ->
            tick_all_channel_lengths(
                [a EXCEPT !.channel1 = tick_frequency_sweep(@)])
      [] a.frame_sequencer = 7 ->
            [a EXCEPT !.channel1.volume_envelope = VolumeEnvelope_tick(@),
                      !.channel2.volume_envelope = VolumeEnvelope_tick(@),
                      !.channel4.volume_envelope = VolumeEnvelope_tick(@)]
      [] OTHER -> a

\* Apu::tick_all_channels
tick_all_channels(a) ==
    [a EXCEPT !.channel1 = Channel1_tick(@), !.channel2 = Channel2_tick(@),
              !.channel3 = Channel3_tick(@), !.channel4 = Channel4_tick(@)]

\* impl Tick for Apu
Apu_tick(a) ==
    IF ~a.enabled THEN a
    ELSE LET a1 == [a EXCEPT !.frame_sequencer_counter = @ - 1]
             a2 == IF a1.frame_sequencer_counter = 0
                   THEN LET b == FrameSequencerStep(
                                     [a1 EXCEPT
                                         !.frame_sequencer_counter = 8192])
                            fs == (b.frame_sequencer + 1) % 8
                            c1 == [b.channel1 EXCEPT
                                    !.common.length_counter.frame_sequencer
                                        = fs]
                            c2 == [b.channel2 EXCEPT
                                    !.common.length_counter.frame_sequencer
                                        = fs]
                        IN [b EXCEPT !.frame_sequencer = fs,
                                     !.channel1 = c1, !.channel2 = c2]
                   ELSE a1
             a3 == tick_all_channels(a2)
         IN [a3 EXCEPT !.frequency_counter = IF @ - 1 = 0 THEN 95 ELSE @ - 1]

\* Apu::clear_all_registers
clear_all_registers(a) ==
    [a EXCEPT !.vin_left_enable = FALSE, !.vin_right_enable = FALSE,
              !.left_volume = 0, !.right_volume = 0, !.enabled = FALSE,
              !.channel1 = Channel1_power_off(@),
              !.channel2 = Channel2_power_off(@),
              !.channel3 = Channel3_power_off(@),
              !.channel4 = Channel4_power_off(@),
              !.channel_enabled = 0]

\* a faulty variant of the read that leaves the unused bits of NR52 at 0
Apu_read_unused_zero(a, addr) ==
    IF addr = 65318
    THEN (IF a.enabled THEN 128 ELSE 0)
           + (IF a.channel1.common.ch_enabled THEN 1 ELSE 0)
           + (IF a.channel2.common.ch_enabled THEN 2 ELSE 0)
           + (IF a.channel3.common.ch_enabled THEN 4 ELSE 0)
           + (IF a.channel4.common.ch_enabled THEN 8 ELSE 0)
    ELSE 255

\* impl Mem for Apu: read, the arms of the control registers.  The field
\* common.channel_enabled that the 0xff26 arm names is ch_enabled
Apu_read(a, addr) ==
    CASE addr = 65316 ->                                           \* 0xff24
            (IF a.vin_left_enable THEN 128 ELSE 0) + a.left_volume * 16
                + (IF a.vin_right_enable THEN 8 ELSE 0) + a.right_volume
      [] addr = 65317 -> a.channel_enabled                         \* 0xff25
      [] addr = 65318 ->                                           \* 0xff26
            BitOr((IF a.enabled THEN 128 ELSE 0)
                    + (IF a.channel1.common.ch_enabled THEN 1 ELSE 0)
                    + (IF a.channel2.common.ch_enabled THEN 2 ELSE 0)
                    + (IF a.channel3.common.ch_enabled THEN 4 ELSE 0)
                    + (IF a.channel4.common.ch_enabled THEN 8 ELSE 0),
                  112)
      [] OTHER -> 255                                       \* 0xff27..=0xff2f

\* impl Mem for Apu: write, for addr in 0xff10..=0xff3f
Apu_write(a, addr, v) ==
    CASE addr = 65318 ->                                           \* 0xff26
            LET enable_apu == Bit(v, 7) # 0
                b == IF a.enabled /\ ~enable_apu THEN clear_all_registers(a)
                     ELSE IF ~a.enabled /\ enable_apu
                     THEN [a EXCEPT !.frame_sequencer = 0]
                     ELSE a
            IN [b EXCEPT !.enabled = enable_apu]
      [] addr >= 65328 ->                                   \* 0xff30..=0xff3f
            [a EXCEPT !.channel3 = Channel3_write(@, addr, v)]
      [] addr = 65297 /\ ~a.enabled ->
            [a EXCEPT !.channel1 = Channel1_write(@, addr, v % 64)]
      [] addr = 65302 /\ ~a.enabled ->
            [a EXCEPT !.channel2 = Channel2_write(@, addr, v % 64)]
      [] addr = 65307 /\ ~a.enabled ->
            [a EXCEPT !.channel3 = Channel3_write(@, addr, v)]
      [] addr = 65312 /\ ~a.enabled ->
            [a EXCEPT !.channel4 = Channel4_write(@, addr, v % 64)]
      [] addr >= 65296 /\ addr <= 65300 ->
            [a EXCEPT !.channel1 = Channel1_write(@, addr, v)]
      [] addr >= 65301 /\ addr <= 65305 ->
            [a EXCEPT !.channel2 = Channel2_write(@, addr, v)]
      [] addr >= 65306 /\ addr <= 65310 ->
            [a EXCEPT !.channel3 = Channel3_write(@, addr, v)]
      [] addr >= 65311 /\ addr <= 65315 ->
            [a EXCEPT !.channel4 = Channel4_write(@, addr, v)]
      [] addr >= 65319 /\ addr <= 65327 -> a                \* 0xff27..=0xff2f
      [] addr = 65316 ->                                           \* 0xff24
            [a EXCEPT !.right_volume = v % 8,
                      !.vin_right_enable = Bit(v, 3) # 0,
                      !.left_volume = (v \div 16) % 8,
                      !.vin_left_enable = Bit(v, 7) # 0]
      [] OTHER -> [a EXCEPT !.channel_enabled = v]                 \* 0xff25

\* Apu::sample before the scaling by master_volume / 16, which takes 0 to 0.0
\* and every other sum to a value that is not 0.0: the sums of the outputs of
\* the channels that NR51 routes to the left and to the right
Apu_sample(a) ==
    LET out == <<a.channel4.common.output, a.channel3.common.output,
                 a.channel2.common.output, a.channel1.common.output>>
        Sum(first) ==
            (IF Bit(a.channel_enabled, first) # 0 THEN out[1] ELSE 0)
          + (IF Bit(a.channel_enabled, first + 1) # 0 THEN out[2] ELSE 0)
          + (IF Bit(a.channel_enabled, first + 2) # 0 THEN out[3] ELSE 0)
          + (IF Bit(a.channel_enabled, first + 3) # 0 THEN out[4] ELSE 0)
    IN <<Sum(4), Sum(0)>>

(***************************************************************************)
(* The APU under register writes and ticks: MaxWrites writes and           *)
(* MaxApuTicks ticks, from the APU as constructed or as a sound start-up   *)
(* leaves it.  last.pre is the APU before the operation.                   *)
(***************************************************************************)
\* Apu::write for a sequence of <<addr, value>> pairs
RECURSIVE Writes(_, _)
Writes(a, seq) ==
    IF seq = << >> THEN a
    ELSE Writes(Apu_write(a, seq[1][1], seq[1][2]), Tail(seq))

\* the APU after a start-up that switches it on (NR52 = 0x80), routes every
\* channel to both sides (NR51 = 0xff) and starts channel 2 at duty 3, volume
\* 15 and frequency 0x7ff (NR21 = 0xc0, NR22 = 0xf0, NR23 = 0xff, NR24 = 0x87)
Playing ==
    Writes(Apu_default,
           << <<65318, 128>>, <<65317, 255>>, <<65302, 192>>, <<65303, 240>>,
              <<65304, 255>>, <<65305, 135>> >>)

InitApu ==
    /\ InitCold
    /\ joypad = Joypad_default
    /\ image = Empty
    /\ steps = 0
    /\ hist = NoHist
    /\ last = NoLast
    /\ cart = NoCart
    /\ audio = NoAudio
    /\ apu \in {Apu_default, Playing}

\* Apu::tick
ApuTick ==
    /\ steps < MaxApuTicks
    /\ apu' = Apu_tick(apu)
    /\ steps' = steps + 1
    /\ last' = [NoLast EXCEPT !.op = "tick", !.pre = apu]
    /\ UNCHANGED <<cpu, bus, ppu, joypad, image, hist, cart, audio>>

\* Apu::write: NR52 off and on, NR51, DAC and trigger writes to the channels
ApuWrite ==
    /\ hist.writes < MaxWrites
    /\ \E w \in { <<65318, 0>>, <<65318, 128>>, <<65317, 68>>,
                  <<65298, 240>>, <<65300, 128>>, <<65303, 0>>,
                  <<65306, 128>>, <<65310, 128>>, <<65313, 240>>,
                  <<65315, 192>> } :
          /\ apu' = Apu_write(apu, w[1], w[2])
          /\ last' = [NoLast EXCEPT !.op = "write", !.addr = w[1],
                                    !.value = w[2], !.pre = apu]
          /\ hist' = [hist EXCEPT
                         !.writes = @ + 1,
                         !.apu_off = IF w[1] # 65318 THEN @
                                     ELSE (apu.enabled \/ @) /\ w[2] < 128]
    /\ UNCHANGED <<cpu, bus, ppu, joypad, image, steps, cart, audio>>

NextApu == ApuTick \/ ApuWrite

SpecApu == InitApu /\ [][NextApu]_vars

\* C21: a read of NR52 returns the master enable in bit 7, the enabled state
\* of channels 1..4 (DAC on and channel on) in bits 0..3 and 1 in bits 4..6
C21_Nr52Read ==
    LET r == Apu_read(apu, 65318)
        on(c) == IF is_channel_enabled(c.common) THEN 1 ELSE 0
    IN /\ Bit(r, 7) = IF apu.enabled THEN 1 ELSE 0
       /\ Bit(r, 0) = on(apu.channel1)
       /\ Bit(r, 1) = on(apu.channel2)
       /\ Bit(r, 2) = on(apu.channel3)
       /\ Bit(r, 3) = on(apu.channel4)
       /\ BitAnd(r, 112) = 112
       /\ r < 256

\* NR52 reads 0xf6 after channel 3 was switched on beside channel 2 and the
\* APU ticked
C21_Witness ==
    /\ last.op = "tick"
    /\ hist.writes = 2
    /\ apu.enabled
    /\ Apu_read(apu, 65318) = 246
    /\ is_channel_enabled(apu.channel3.common)
    /\ ~is_channel_enabled(apu.channel1.common)

\* the last operation was the write to NR52 that switches the APU off
PoweredOff ==
    /\ last.op = "write" /\ last.addr = 65318 /\ last.value < 128
    /\ last.pre.enabled

\* C22: the write of NR52 with bit 7 clear, to an APU that is on, clears
\* NR50 and NR51 and the channels' registers, keeps every channel's length
\* value, leaves all four channels disabled with output 0, and from then
\* until the APU is switched on again every sample is (0, 0) whatever is
\* written to the registers.
C22_PowerOffSilences ==
    LET chans(a) == <<a.channel1, a.channel2, a.channel3, a.channel4>>
    IN /\ PoweredOff =>
            /\ ~apu.enabled
            /\ Apu_read(apu, 65316) = 0 /\ Apu_read(apu, 65317) = 0
            /\ \A i \in 1..4 :
                  /\ chans(apu)[i].common.length_counter.length
                        = chans(last.pre)[i].common.length_counter.length
                  /\ ~is_channel_enabled(chans(apu)[i].common)
                  /\ ~chans(apu)[i].common.dac_enabled
                  /\ chans(apu)[i].common.output = 0
            /\ apu.channel1.duty = 0 /\ apu.channel2.duty = 0
            /\ apu.channel2.frequency = 0
            /\ get_volume(apu.channel1.volume_envelope) = 0
            /\ get_volume(apu.channel2.volume_envelope) = 0
            /\ get_volume(apu.channel4.volume_envelope) = 0
       /\ (hist.apu_off /\ ~apu.enabled) => Apu_sample(apu) = <<0, 0>>

\* channel 2 was sounding at volume 15 when the APU was switched off, and a
\* write to NR51 while the APU is off routes its stale output to both sides
C22_SoundsWhileOff ==
    /\ hist.apu_off /\ ~apu.enabled
    /\ last.op = "write" /\ last.addr = 65317 /\ last.value = 68
    /\ apu.channel2.common.output = 15
    /\ Apu_sample(apu) = <<15, 15>>

\* C28: a write to NRx4 with the trigger bit set while the channel's length
\* counter is zero reloads the counter, so that it is non-zero afterwards,
\* and triggers the channel, which is enabled when its DAC is on; for every
\* channel and every prior state of the length-enable bit.
C28_TriggerReloads ==
    LET chan(a) == CASE last.addr = 65300 -> a.channel1.common
                     [] last.addr = 65305 -> a.channel2.common
                     [] last.addr = 65310 -> a.channel3.common
                     [] OTHER -> a.channel4.common
    IN (/\ last.op = "write"
        /\ last.addr \in {65300, 65305, 65310, 65315}
        /\ last.value >= 128
        /\ chan(last.pre).length_counter.length = 0) =>
          /\ chan(apu).length_counter.length > 0
          /\ chan(apu).dac_enabled => chan(apu).ch_enabled

\* NR42 = 0xf0 switches the DAC of channel 4 on; NR44 = 0xc0 then triggers it
\* with the length enabled: the length stays 0 and the channel stays off
C28_TriggerLeavesZero ==
    /\ last.op = "write" /\ last.addr = 65315 /\ last.value = 192
    /\ ~last.pre.channel4.common.length_counter.enabled
    /\ last.pre.channel4.common.length_counter.length = 0
    /\ apu.channel4.common.dac_enabled
    /\ apu.channel4.common.length_counter.length = 0
    /\ ~apu.channel4.common.ch_enabled

(***************************************************************************)
(* The frame sequencer over a whole round of its eight steps: the APU is   *)
(* switched on and its four channels started, then it is ticked once per   *)
(* T-cycle; steps counts the ticks.                                        *)
(***************************************************************************)
MaxSeqTicks == 65540

\* every channel with its DAC on, the length enabled and an envelope of
\* period 1; channel 1 sweeps upwards from 256 with period 1 and shift 2
Swept ==
    Writes(Apu_default,
           << <<65318, 128>>, <<65317, 255>>,
              <<65296, 18>>, <<65297, 128>>, <<65298, 241>>, <<65299, 0>>,
              <<65300, 193>>,
              <<65302, 128>>, <<65303, 241>>, <<65304, 0>>, <<65305, 199>>,
              <<65306, 128>>, <<65307, 0>>, <<65310, 192>>,
              <<65312, 0>>, <<65313, 241>>, <<65315, 192>> >>)

\* channel 1 sweeps upwards from 1000 with period 1 and shift 1: 1500 at the
\* first sweep clock, and 2250 is next
Overflowing ==
    Writes(Apu_default,
           << <<65318, 128>>, <<65317, 255>>,
              <<65296, 17>>, <<65297, 128>>, <<65298, 240>>, <<65299, 232>>,
              <<65300, 131>> >>)

InitSeq ==
    /\ InitCold
    /\ joypad = Joypad_default
    /\ image = Empty
    /\ steps = 0
    /\ hist = NoHist
    /\ last = NoLast
    /\ cart = NoCart
    /\ audio = NoAudio
    /\ apu \in {Swept, Overflowing}

\* Core::step: one T-cycle of the APU
SeqTick ==
    /\ steps < MaxSeqTicks
    /\ apu' = Apu_tick(apu)
    /\ steps' = steps + 1
    /\ last' = [NoLast EXCEPT !.op = "tick", !.pre = apu]
    /\ UNCHANGED <<cpu, bus, ppu, joypad, image, hist, cart, audio>>

NextSeq == SeqTick

SpecSeq == InitSeq /\ [][NextSeq]_vars

\* the length values and the envelopes of an APU
Lengths(a) ==
    <<a.channel1.common.length_counter.length,
      a.channel2.common.length_counter.length,
      a.channel3.common.length_counter.length,
      a.channel4.common.length_counter.length>>

Envelopes(a) ==
    <<a.channel1.volume_envelope, a.channel2.volume_envelope,
      a.channel4.volume_envelope>>

\* C27: while the APU is on, the frame-sequencer step stays in 0..7 and moves
\* on by one, mod 8, at every 8192nd T-cycle and at no other; the steps 0, 2,
\* 4, 6 clock the four length counters, the steps 2 and 6 the sweep of
\* channel 1 as well, the step 7 the envelopes of the channels 1, 2, 4, and
\* the steps 1, 3, 5 clock nothing.
C27_FrameSequencer ==
    /\ apu.enabled
    /\ apu.frame_sequencer \in 0..7
    /\ apu.frame_sequencer = (steps \div 8192) % 8
    /\ last.op = "tick" =>
          LET pre == last.pre
              fired == steps % 8192 = 0
              s == pre.frame_sequencer
              clocked(c) == LengthCounter_tick(c.common.length_counter).length
          IN /\ Lengths(apu) =
                   IF fired /\ s \in {0, 2, 4, 6}
                   THEN <<clocked(pre.channel1), clocked(pre.channel2),
                          clocked(pre.channel3), clocked(pre.channel4)>>
                   ELSE Lengths(pre)
             /\ apu.channel1.frequency_sweep =
                   IF fired /\ s \in {2, 6}
                   THEN FrequencySweep_tick(pre.channel1.frequency_sweep)
                   ELSE pre.channel1.frequency_sweep
             /\ Envelopes(apu) =
                   IF fired /\ s = 7
                   THEN <<VolumeEnvelope_tick(pre.channel1.volume_envelope),
                          VolumeEnvelope_tick(pre.channel2.volume_envelope),
                          VolumeEnvelope_tick(pre.channel4.volume_envelope)>>
                   ELSE Envelopes(pre)

\* the eighth step has fired: four length clocks, two sweep clocks and one
\* envelope clock since the start
C27_Witness ==
    /\ steps = 65536 /\ last.op = "tick" /\ apu.frame_sequencer = 0
    /\ last.pre.frame_sequencer = 7
    /\ Lengths(apu) = <<60, 60, 60, 60>>
    /\ apu.channel1.frequency_sweep.frequency = 400
    /\ apu.channel2.volume_envelope.volume = 14
    /\ last.pre.channel2.volume_envelope.volume = 15

\* C29: once a sweep calculation of channel 1 has gone above 2047, at the
\* trigger, at the sweep clock of step 2 or step 6, or in the second
\* calculation after a write-back, channel 1 is disabled: bit 0 of NR52 reads
\* 0 and the output, once the channel's timer has run out, is 0; and the
\* frequency register never holds a value above 2047.
C29_SweepOverflowDisables ==
    /\ apu.channel1.frequency_sweep.frequency <= 2047
    /\ apu.channel1.frequency_sweep.overflow =>
          /\ Bit(Apu_read(apu, 65318), 0) = 0
          /\ (last.op = "tick" /\ last.pre.channel1.frequency_sweep.overflow
              /\ last.pre.channel1.timer <= 1) =>
                apu.channel1.common.output = 0

\* the sweep clock of step 2 writes 1500 back and calculates 2250: the
\* overflow is noted and channel 1 stays on
C29_OverflowStaysEnabled ==
    /\ steps = 24576 /\ last.op = "tick" /\ last.pre.frame_sequencer = 2
    /\ ~last.pre.channel1.frequency_sweep.overflow
    /\ last.pre.channel1.frequency_sweep.frequency = 1000
    /\ apu.channel1.frequency_sweep.overflow
    /\ apu.channel1.frequency_sweep.frequency = 1500
    /\ Bit(Apu_read(apu, 65318), 0) = 1

(***************************************************************************)
(* LY = LYC: the LCD is on, a program has stored LYC and STAT, and         *)
(* GPU::next is called with 4 cycles at a time until MaxFrames             *)
(* should_render signals; last.pre is the PPU before the call, last.value  *)
(* the line it rendered or -1, hist.lines the lines rendered since LY was  *)
(* last 0.                                                                 *)
(***************************************************************************)
\* the PPU after the stores to LCDC, LYC and STAT
LycSetup(lyc, stat) ==
    write_vram(write_vram(write_vram(GPU_new, 65344, LcdcOn).ppu,
                          65349, lyc).ppu,
               65345, stat).ppu

InitLyc ==
    /\ cpu = ProcessingUnit_new
    /\ bus = MemoryBus_new("NoMBC", 32768)
    /\ \E lyc \in {0, 77, 153} : \E stat \in {64, 0} :
          ppu = LycSetup(lyc, stat)
    /\ joypad = Joypad_default
    /\ image = Empty
    /\ steps = 0
    /\ hist = NoHist
    /\ last = NoLast
    /\ cart = NoCart
    /\ audio = NoAudio
    /\ apu = NoApu

\* GPU::next(4)
LycAdvance ==
    /\ hist.frames < MaxFrames
    /\ LET g == GPU_next(ppu, 4) IN
          /\ ppu' = g.ppu
          /\ hist' = [Account(hist, ppu, g, 4) EXCEPT
                        !.lines = IF g.rendered >= 0
                                  THEN Append(@, g.rendered)
                                  ELSE IF ppu.mode = VBlank1
                                          /\ g.ppu.mode = OamRead2
                                  THEN << >> ELSE @]
          /\ last' = [NoLast EXCEPT !.op = "next", !.elapsed = 4,
                                    !.should_render = g.should_render,
                                    !.value = g.rendered,
                                    !.pre = ppu]
    /\ UNCHANGED <<cpu, bus, joypad, image, steps, cart, audio, apu>>

NextLyc == LycAdvance

SpecLyc == InitLyc /\ [][NextLyc]_vars

\* C30: with the LCD on, each change of LY to the value of LYC raises
\* LCD_STAT in IF when bit 6 of STAT is set, the wrap of LY to 0 included,
\* and raises nothing when the bit is clear.
C30_LycCoincidence ==
    (/\ last.op = "next" /\ lcd_display_enable(ppu)
     /\ ppu.ly # last.pre.ly /\ ppu.ly = ppu.lc) =>
        IF ppu.enable_ly_interrupt
        THEN BitAnd(ppu.interrupt_flag, LCD_STAT) # 0
        ELSE BitAnd(ppu.interrupt_flag, LCD_STAT)
               = BitAnd(last.pre.interrupt_flag, LCD_STAT)

\* LYC = 0 with bit 6 set: LY wraps from 153 to 0 and LCD_STAT stays clear
C30_WrapRaisesNothing ==
    /\ last.op = "next" /\ last.pre.ly = 153 /\ ppu.ly = 0 /\ ppu.lc = 0
    /\ ppu.enable_ly_interrupt /\ lcd_display_enable(ppu)
    /\ BitAnd(ppu.interrupt_flag, LCD_STAT) = 0

(***************************************************************************)
(* cpu/mod.rs and cpu/step.rs: compare, 16-bit additions and the stack     *)
(* instructions.  The machine has left the boot ROM; the registers, and    *)
(* the operands, are drawn from sets that hold the documented examples and *)
(* the values around the carries.  last.pre is the machine before the      *)
(* instruction, last.before the instruction before it with its machine.    *)
(***************************************************************************)
MaxAluOps == 2

get_bc(c) == c.b * 256 + c.c

get_de(c) == c.d * 256 + c.e

get_hl(c) == c.h * 256 + c.l

set_hl(c, v) == [c EXCEPT !.h = v \div 256, !.l = v % 256]

\* a faulty variant of the compare that keeps the difference in A, as SUB does
compare_a_with_keeps_result(c, n) ==
    LET r == W8(c.a + 256 - n) IN
    [c EXCEPT !.a = r,
              !.f = FlagSet(FlagSet(BitOr(FlagSet(c.f, ZERO, r = 0), N),
                                    H, BitAnd(c.a, 15) < BitAnd(n, 15)),
                            CARRY, c.a < n)]

\* ProcessingUnit::compare_a_with: a.overflowing_sub(n) gives the difference
\* mod 256 and the borrow
compare_a_with(c, n) ==
    LET r == W8(c.a + 256 - n)
        did_overflow == c.a < n
    IN [c EXCEPT !.f = FlagSet(FlagSet(BitOr(FlagSet(c.f, ZERO, r = 0), N),
                                       H, BitAnd(c.a, 15) < BitAnd(n, 15)),
                               CARRY, did_overflow)]

\* a faulty variant of the addition that takes H from the carry out of bit 7
add_hl_16_half_from_bit_7(c, hl) ==
    LET prev == get_hl(c)
        new_hl == W16(prev + hl)
        h_flag == BitAnd(BitAnd(prev, 255) + BitAnd(hl, 255), 256) > 0
    IN set_hl([c EXCEPT !.f = FlagSet(FlagSet(BitClear(c.f, N), H, h_flag),
                                      CARRY, prev + hl > 65535)],
              new_hl)

\* ProcessingUnit::add_hl_16: prev.overflowing_add(hl) gives the sum mod
\* 2^16 and the carry
add_hl_16(c, hl) ==
    LET prev == get_hl(c)
        new_hl == W16(prev + hl)
        overflow == prev + hl > 65535
        h_flag == BitAnd(BitAnd(prev, 4095) + BitAnd(hl, 4095), 4096) > 0
    IN set_hl([c EXCEPT !.f = FlagSet(FlagSet(BitClear(c.f, N), H, h_flag),
                                      CARRY, overflow)],
              new_hl)

\* get_immediate_i8 as i16 as u16: the byte sign-extended to 16 bits
SignExtend(byte) == IF byte >= 128 THEN byte + 65280 ELSE byte

\* a faulty variant of the addition that takes C from the carry out of bit 15
add_16_imm_carry_from_bit_15(c, a, byte) ==
    LET b == SignExtend(byte) IN
    [cpu |-> [c EXCEPT !.pc = @ + 1,
                       !.f = FlagSet(FlagSet(BitClear(BitClear(c.f, N), ZERO),
                                             H, BitAnd(a, 15) + BitAnd(b, 15)
                                                  > 15),
                                     CARRY, a + b > 65535)],
     r |-> W16(a + b)]

\* ProcessingUnit::add_16_imm for the immediate byte at pc: [cpu, r]
add_16_imm(c, a, byte) ==
    LET b == SignExtend(byte) IN
    [cpu |-> [c EXCEPT !.pc = @ + 1,
                       !.f = FlagSet(FlagSet(BitClear(BitClear(c.f, N), ZERO),
                                             H, BitAnd(a, 15) + BitAnd(b, 15)
                                                  > 15),
                                     CARRY, BitAnd(a, 255) + BitAnd(b, 255)
                                              > 255)],
     r |-> W16(a + b)]

\* the immediate bytes of ADD SP,i8 and LD HL,SP+i8: +2, -2, +8, -1, -128
Offsets == {2, 254, 8, 255, 128}

\* 0xC1, 0xD1, 0xE1 POP BC, DE, HL: the low register, then the high one
pop_rr(m, img, lo, hi) ==
    LET x == read_sp_u8(m, img)
        y == read_sp_u8(x.m, img)
    IN [y.m EXCEPT !.cpu[lo] = x.v, !.cpu[hi] = y.v]

\* the register pair a PUSH (0xC5..0xF5) or POP (0xC1..0xF1) opcode names
PairOf(c, opcode) ==
    CASE opcode \div 16 = 12 -> get_bc(c)
      [] opcode \div 16 = 13 -> get_de(c)
      [] opcode \div 16 = 14 -> get_hl(c)
      [] OTHER -> get_af(c)

\* the register file the run starts from
AluRegs ==
    { [skip_boot_rom(ProcessingUnit_new) EXCEPT
          !.a = r[1], !.f = r[2], !.b = 6, !.c = 5, !.d = 255, !.e = 255,
          !.h = 138, !.l = 35, !.sp = r[3]] :               \* HL = 0x8a23
      r \in { <<60, 0, 65528>>,                  \* A = 0x3c, SP = 0xfff8
              <<60, ZERO + H + CARRY, 53248>>,   \* SP = 0xd000
              <<255, 0, 53248>>,
              <<0, ZERO + H + CARRY, 65528>> } }

InitAlu ==
    /\ cpu \in AluRegs
    /\ bus = BootDone.bus
    /\ ppu = BootDone.ppu
    /\ joypad = Joypad_default
    /\ image = Empty
    /\ steps = 0
    /\ hist = NoHist
    /\ last = NoLast
    /\ cart = NoCart
    /\ audio = NoAudio
    /\ apu = NoApu

\* what an instruction records: its name, opcode and immediate byte
Did(op, opcode, value) ==
    [NoLast EXCEPT !.op = op, !.opcode = opcode, !.value = value,
                   !.pre = Machine,
                   !.before = [op |-> last.op, opcode |-> last.opcode,
                               pre |-> last.pre]]

\* 0xFE CP n: the opcode fetch, get_immediate_u8 and compare_a_with
CpN ==
    /\ steps < MaxAluOps
    /\ \E n \in {60, 64, 47, 0, 255} :
          /\ cpu' = [compare_a_with(cpu, n) EXCEPT !.pc = @ + 2]
          /\ last' = Did("cp", 254, n)
    /\ steps' = steps + 1
    /\ UNCHANGED <<bus, ppu, joypad, image, hist, cart, audio, apu>>

\* 0x09, 0x19, 0x29, 0x39 ADD HL,rr with rr = BC, DE, HL, SP
AddHl ==
    /\ steps < MaxAluOps
    /\ \E opcode \in {9, 25, 41, 57} :
          LET rr == CASE opcode = 9 -> get_bc(cpu)
                      [] opcode = 25 -> get_de(cpu)
                      [] opcode = 41 -> get_hl(cpu)
                      [] OTHER -> cpu.sp
          IN /\ cpu' = [add_hl_16(cpu, rr) EXCEPT !.pc = @ + 1]
             /\ last' = Did("add_hl", opcode, rr)
    /\ steps' = steps + 1
    /\ UNCHANGED <<bus, ppu, joypad, image, hist, cart, audio, apu>>

\* 0xE8 ADD SP,i8
AddSpImm ==
    /\ steps < MaxAluOps
    /\ \E byte \in Offsets :
          LET o == add_16_imm([cpu EXCEPT !.pc = @ + 1], cpu.sp, byte) IN
          /\ cpu' = [o.cpu EXCEPT !.sp = o.r]
          /\ last' = Did("add_sp", 232, byte)
    /\ steps' = steps + 1
    /\ UNCHANGED <<bus, ppu, joypad, image, hist, cart, audio, apu>>

\* 0xF8 LD HL,SP+i8
LdHlSpImm ==
    /\ steps < MaxAluOps
    /\ \E byte \in Offsets :
          LET o == add_16_imm([cpu EXCEPT !.pc = @ + 1], cpu.sp, byte) IN
          /\ cpu' = set_hl(o.cpu, o.r)
          /\ last' = Did("ld_hl_sp", 248, byte)
    /\ steps' = steps + 1
    /\ UNCHANGED <<bus, ppu, joypad, image, hist, cart, audio, apu>>

\* 0xC5, 0xD5, 0xE5, 0xF5 PUSH BC, DE, HL, AF
Push ==
    /\ steps < MaxAluOps
    /\ \E opcode \in {197, 213, 229, 245} :
          LET m == push_u16([Machine EXCEPT !.cpu.pc = @ + 1],
                            PairOf(cpu, opcode))
          IN /\ cpu' = m.cpu
             /\ bus' = m.bus
             /\ ppu' = m.ppu
             /\ hist' = [hist EXCEPT !.aborted = m.aborted]
             /\ last' = Did("push", opcode, PairOf(cpu, opcode))
    /\ steps' = steps + 1
    /\ UNCHANGED <<joypad, image, cart, audio, apu>>

\* 0xC1, 0xD1, 0xE1, 0xF1 POP BC, DE, HL, AF; the bytes of the cartridge at
\* the stack pointer are drawn at the first read of them
Pop ==
    /\ steps < MaxAluOps
    /\ \E opcode \in {193, 209, 225, 241} :
       \E img \in Reveal(image,
                         CellsOf(Machine, {cpu.sp, W16(cpu.sp + 1)}),
                         DataBytes) :
          LET m0 == [Machine EXCEPT !.cpu.pc = @ + 1]
              m == CASE opcode = 193 -> pop_rr(m0, img, "c", "b")
                     [] opcode = 209 -> pop_rr(m0, img, "e", "d")
                     [] opcode = 225 -> pop_rr(m0, img, "l", "h")
                     [] OTHER -> pop_af(m0, img)
          IN /\ cpu' = m.cpu
             /\ hist' = [hist EXCEPT !.aborted = m.aborted]
             /\ image' = img
             /\ last' = Did("pop", opcode, PairOf(m.cpu, opcode))
    /\ steps' = steps + 1
    /\ UNCHANGED <<bus, ppu, joypad, cart, audio, apu>>

NextAlu == CpN \/ AddHl \/ AddSpImm \/ LdHlSpImm \/ Push \/ Pop

SpecAlu == InitAlu /\ [][NextAlu]_vars

C24_AddHl ==
    last.op = "add_hl" =>
        LET hl == get_hl(last.pre.cpu)
            rr == last.value
            flag(x) == BitAnd(cpu.f, x) # 0
        IN /\ get_hl(cpu) = (hl + rr) % 65536
           /\ flag(ZERO) <=> BitAnd(last.pre.cpu.f, ZERO) # 0
           /\ ~flag(N)
           /\ flag(H) <=> ((hl % 4096) + (rr % 4096) > 4095)
           /\ flag(CARRY) <=> (hl + rr > 65535)
           /\ last.opcode = 41 => rr = hl
           /\ (hl = 35363 /\ rr = 1541) =>
                 get_hl(cpu) = 36904 /\ flag(H) /\ ~flag(CARRY)
           /\ (hl = 35363 /\ rr = 35363) =>
                 get_hl(cpu) = 5190 /\ flag(H) /\ flag(CARRY)

\* ADD HL,HL with HL = 0x8a23
C24_Witness ==
    /\ last.op = "add_hl" /\ last.opcode = 41
    /\ get_hl(last.pre.cpu) = 35363
    /\ get_hl(cpu) = 5190
    /\ BitAnd(cpu.f, H + CARRY + N) = H + CARRY

\* C25: ADD SP,i8 and LD HL,SP+i8 compute (SP + sign-extended i8) mod 2^16,
\* stored into SP, respectively into HL with SP unchanged; both clear Z and
\* N and set H iff the low nibbles carry and C iff the low bytes carry;
\* SP = 0xfff8 with i8 = 2 gives HL = 0xfffa without H and C.
C25_AddSpImm ==
    last.op \in {"add_sp", "ld_hl_sp"} =>
        LET sp == last.pre.cpu.sp
            byte == last.value
            signed == IF byte >= 128 THEN byte - 256 ELSE byte
            sum == (sp + signed + 65536) % 65536
            flag(x) == BitAnd(cpu.f, x) # 0
        IN /\ last.op = "add_sp" =>
                 cpu.sp = sum /\ get_hl(cpu) = get_hl(last.pre.cpu)
           /\ last.op = "ld_hl_sp" => get_hl(cpu) = sum /\ cpu.sp = sp
           /\ ~flag(ZERO) /\ ~flag(N)
           /\ flag(H) <=> ((sp % 16) + (byte % 16) > 15)
           /\ flag(CARRY) <=> ((sp % 256) + byte > 255)
           /\ (last.op = "ld_hl_sp" /\ sp = 65528 /\ byte = 2) =>
                 get_hl(cpu) = 65530 /\ cpu.f = 0

\* LD HL,SP-2 with SP = 0xd000: the sum borrows from bit 15 while the low
\* bytes carry nothing
C25_Witness ==
    /\ last.op = "ld_hl_sp" /\ last.pre.cpu.sp = 53248 /\ last.value = 254
    /\ get_hl(cpu) = 53246 /\ cpu.sp = 53248 /\ cpu.f = 0

\* the two bytes below sp, where a PUSH stores, lie in RAM
StackInRam(sp) == InRam(W16(sp + 65535)) /\ InRam(W16(sp + 65534))

\* C26: with the two bytes below SP in writable RAM, PUSH rr lowers SP by 2
\* and stores the MSB of the pair at SP + 1 and the LSB at the new SP, and a
\* POP rr right after it leaves the pair and SP as they were before the PUSH,
\* for BC, DE, HL and AF.
C26_PushPop ==
    /\ (last.op = "push" /\ StackInRam(last.pre.cpu.sp)) =>
          /\ cpu.sp = W16(last.pre.cpu.sp + 65534)
          /\ read_byte(Machine, image, W16(cpu.sp + 1)) = last.value \div 256
          /\ read_byte(Machine, image, cpu.sp) = last.value % 256
          /\ PairOf(cpu, last.opcode) = last.value
    /\ (/\ last.op = "pop" /\ last.before.op = "push"
        /\ last.opcode = last.before.opcode - 4
        /\ StackInRam(last.before.pre.cpu.sp)) =>
          /\ PairOf(cpu, last.opcode)
               = PairOf(last.before.pre.cpu, last.opcode)
          /\ cpu.sp = last.before.pre.cpu.sp
          /\ ~hist.aborted

\* PUSH AF, POP AF with AF = 0x3cb0 and SP = 0xd000
C26_Witness ==
    /\ last.op = "pop" /\ last.opcode = 241
    /\ last.before.op = "push" /\ last.before.opcode = 245
    /\ last.before.pre.cpu.sp = 53248
    /\ get_af(last.before.pre.cpu) = 15536
    /\ get_af(cpu) = 15536 /\ cpu.sp = 53248

(***************************************************************************)
(* The duty position of the square channels, under SpecSeq.                *)
(***************************************************************************)
\* the frequency timer of a square channel runs out at the next tick
Expires(c) == c.timer <= 1

\* C40: the duty position of the channels 1 and 2 stays in 0..7 and moves on
\* by one, mod 8, at each expiry of the channel's frequency timer, and only
\* then, so that eight expiries in a row visit each of the positions 0..7
\* once.
C40_DutyCycle ==
    /\ apu.channel1.sequence \in 0..7
    /\ apu.channel2.sequence \in 0..7
    /\ last.op = "tick" =>
          /\ apu.channel1.sequence =
                IF Expires(last.pre.channel1)
                THEN (last.pre.channel1.sequence + 1) % 8
                ELSE last.pre.channel1.sequence
          /\ apu.channel2.sequence =
                IF Expires(last.pre.channel2)
                THEN (last.pre.channel2.sequence + 1) % 8
                ELSE last.pre.channel2.sequence

\* the seventh expiry of channel 2: the position goes from 6 back to 0
C40_SkipsPosition7 ==
    /\ last.op = "tick" /\ Expires(last.pre.channel2)
    /\ last.pre.channel2.sequence = 6
    /\ apu.channel2.sequence = 0

(***************************************************************************)
(* Rendering, under SpecLyc.                                               *)
(***************************************************************************)
\* GPU::render_line_into_buffer: the buffer indices written for the line y
render_line_into_buffer(y) == {y * 160 + x : x \in 0..159}

\* C31: with the LCD on, a line is rendered only at its TRANSFER to HBLANK
\* transition, into the buffer indices y*160 .. y*160+159, all within
\* 0..23039, and when the frame is signalled each of the lines 0..143 has
\* been rendered exactly once.
C31_EachLineOnce ==
    /\ (last.op = "next" /\ last.value >= 0) =>
          /\ last.pre.mode = Transfer3 /\ ppu.mode = HBlank0
          /\ last.value = last.pre.ly
          /\ render_line_into_buffer(last.value)
               = (last.value * 160) .. (last.value * 160 + 159)
          /\ render_line_into_buffer(last.value) \subseteq 0..23039
    /\ (last.op = "next" /\ last.should_render) =>
          hist.lines = [i \in 1..144 |-> i - 1]

\* the frame is signalled when LY reaches 143: the lines 0..142 have been
\* rendered and the line 143 has not
C31_Line143Missing ==
    /\ last.op = "next" /\ last.should_render /\ ppu.ly = 143
    /\ ppu.mode = VBlank1
    /\ hist.lines = [i \in 1..143 |-> i - 1]

(***************************************************************************)
(* The PPU with the LCD off, under SpecRegs; last.pre is the PPU before    *)
(* GPU::next and last.value the line it rendered, or -1.                   *)
(***************************************************************************)
\* C32: while bit 7 of LCDC is 0, GPU::next leaves the dot counter, the mode
\* and LY as they are, raises neither VBLANK nor LCD_STAT, renders nothing
\* and does not signal a frame, whatever the cycle count.
C32_LcdOffFreezes ==
    (last.op = "next" /\ ~lcd_display_enable(last.pre)) =>
        /\ ppu.cycles = last.pre.cycles
        /\ ppu.mode = last.pre.mode
        /\ ppu.ly = last.pre.ly
        /\ BitAnd(ppu.interrupt_flag, V_BLANK + LCD_STAT)
             = BitAnd(last.pre.interrupt_flag, V_BLANK + LCD_STAT)
        /\ last.value = -1
        /\ ~last.should_render

\* GPU::next(456) with the LCD off: the dot counter has moved on by 456
C32_DotCounterRuns ==
    /\ last.op = "next" /\ ~lcd_display_enable(last.pre)
    /\ last.elapsed = 456
    /\ ppu.cycles = last.pre.cycles + 456
    /\ ppu.mode = last.pre.mode /\ ppu.ly = last.pre.ly

(***************************************************************************)
(* Pending requests across GPU::next, under SpecLyc                        *)
(***************************************************************************)
\* C38: GPU::next (the PPU and the timer it steps) only ever sets bits of
\* the interrupt flags: every request pending before the call is pending
\* after it, so a VBLANK request survives the wrap to LY = 0.
C38_RequestsStayPending ==
    last.op = "next" =>
        BitAnd(last.pre.interrupt_flag, ppu.interrupt_flag)
            = last.pre.interrupt_flag

\* the frame wraps from line 153 to line 0 with VBLANK pending and unserviced:
\* the request is gone after the call
C38_WrapClearsVBlank ==
    /\ last.op = "next"
    /\ last.pre.mode = VBlank1 /\ last.pre.ly = 153
    /\ BitAnd(last.pre.interrupt_flag, V_BLANK) = V_BLANK
    /\ ppu.ly = 0 /\ ppu.mode = OamRead2
    /\ BitAnd(ppu.interrupt_flag, V_BLANK) = 0

(***************************************************************************)
(* IF on the bus and IF as the dispatch sees it, under SpecFrame           *)
(***************************************************************************)
\* the byte MemoryBus::read_byte returns at 0xff0f
BusIf == read_byte(Machine, image, 65295)

\* the flags check_and_execute_interrupts examines (cpu/mod.rs:223)
DispatchIf == ppu.interrupt_flag

\* C39: the low five bits of the byte read on the bus at 0xff0f are the
\* interrupt flags the CPU's dispatch examines
C39_BusIfIsDispatchIf == BitAnd(BusIf, 31) = BitAnd(DispatchIf, 31)

\* the PPU has entered VBLANK and raised the request, which the dispatch
\* sees, and a read of 0xff0f returns 0
C39_RequestNotOnBus ==
    /\ last.op = "step" /\ last.should_render
    /\ BitAnd(DispatchIf, V_BLANK) = V_BLANK
    /\ BusIf = 0

(***************************************************************************)
(* HALT: Core::step on a cartridge whose entry point holds a HALT, with    *)
(* the LCD on, sound playing, a TIMER request left pending and IE either   *)
(* empty or enabling VBLANK.  The CPU sleeps until the PPU raises VBLANK.  *)
(***************************************************************************)
\* the should_render signals up to which SpecHalt follows the machine, and
\* then through line 143
MaxHaltFrames == 1

\* the loop `for _ in 0..elapsed` of Core::step: [apu, audio]
RECURSIVE TickLoop(_, _, _)
TickLoop(a, s, n) ==
    IF n = 0 THEN [apu |-> a, audio |-> s]
    ELSE TickLoop(Apu_tick(a), tick(s), n - 1)

InitHalt ==
    /\ \E s \in {<<FALSE, 0>>, <<FALSE, V_BLANK>>, <<TRUE, V_BLANK>>} :
          /\ cpu = [skip_boot_rom(ProcessingUnit_new) EXCEPT
                       !.interrupt_master_enable = s[1]]
          /\ bus = write_byte([cpu |-> ProcessingUnit_new,
                               bus |-> BootDone.bus, ppu |-> BootDone.ppu,
                               aborted |-> FALSE], 65535, s[2]).bus
    /\ ppu = [write_vram(BootDone.ppu, 65344, LcdcOn).ppu EXCEPT
                 !.interrupt_flag = TIMER]
    /\ joypad = Joypad_default
    /\ image \in Reveal(Empty, {RomCell(EntryPoint)}, {118})
    /\ steps = 0
    /\ hist = NoHist
    /\ last = NoLast
    /\ cart = NoCart
    /\ audio = NoAudio
    /\ apu = Playing

\* Core::step: the joypad update, one CPU step, GPU::next and the APU and
\* sampler ticks for the cycles of that step; steps counts the CPU steps that
\* were not halted ones
HaltStep ==
    /\ ~hist.aborted
    /\ hist.frames < MaxHaltFrames
         \/ (hist.frames = MaxHaltFrames /\ ppu.ly = 143)
    /\ steps < MaxSteps \/ (cpu.halted /\ ~check_interrupt(Machine))
    /\ \E keys \in KeyMasks : \E o \in CpuNext(Machine, image) :
          LET n == PpuElapsed(o.elapsed)
              g == GPU_next(o.m.ppu, n)
              t == TickLoop(apu, audio, o.elapsed) IN
          /\ CoreStepTo(keys, o, g)
          /\ hist' = [Account(hist, o.m.ppu, g, n) EXCEPT
                        !.aborted = o.m.aborted]
          /\ apu' = t.apu
          /\ audio' = t.audio
          /\ steps' = IF o.executed \/ o.serviced THEN steps + 1 ELSE steps
    /\ UNCHANGED cart

NextHalt == HaltStep

SpecHalt == InitHalt /\ [][NextHalt]_vars

\* a Core step entered with the CPU halted
HaltedStep == cpu.halted /\ last'.op = "step"

\* C36: a CPU step entered halted with IE & IF = 0 returns 4 and leaves the
\* registers (PC, SP, IME, HALTED among them), IF and the bus memory as they
\* were, while the PPU with the timer, the APU and the sampler are advanced by
\* those 4 cycles; a step entered halted with a bit of IE & IF set services
\* the interrupt or executes an instruction.
C36_HaltedUntilRequest ==
    [][HaltedStep =>
        IF BitAnd(BitAnd(bus.interrupts_enabled, ppu.interrupt_flag), 31) = 0
        THEN /\ last'.elapsed = 4
             /\ ~last'.executed /\ ~last'.serviced
             /\ cpu' = cpu /\ cpu'.halted
             /\ bus' = bus
             /\ last'.cpu_if = ppu.interrupt_flag
             /\ ppu' = GPU_next(ppu, 4).ppu
             /\ ppu'.timer_cycles # ppu.timer_cycles \/ ppu'.div # ppu.div
             /\ ppu'.cycles # ppu.cycles \/ ppu'.mode # ppu.mode
             /\ apu' = TickLoop(apu, audio, 4).apu /\ apu' # apu
        ELSE last'.serviced \/ last'.executed]_vars

\* the CPU has slept from the HALT until the PPU raised VBLANK, which IE does
\* not enable, and is still halted with TIMER and VBLANK pending
C36_StillHalted ==
    /\ last.op = "step" /\ last.elapsed = 4
    /\ ~last.executed /\ ~last.serviced
    /\ cpu.halted /\ cpu.pc = EntryPoint + 1
    /\ bus.interrupts_enabled = 0
    /\ ppu.interrupt_flag = TIMER + V_BLANK
    /\ last.pre.iflag = TIMER + V_BLANK
    /\ hist.frames = 1

\* the CPU has left HALT at the step entered with VBLANK enabled and pending
C36_Woken ==
    /\ last.op = "step"
    /\ last.pre.cpu.halted
    /\ BitAnd(last.pre.ie, last.pre.iflag) = V_BLANK
    /\ last.serviced \/ last.executed

(***************************************************************************)
(* The cycle count of a CPU step, under SpecCost: conditional branches and *)
(* a store through HL, on programs run from the cartridge, from work RAM,  *)
(* from a switchable ROM bank and from the boot ROM.                       *)
(***************************************************************************)
\* the CPU steps SpecCost follows
MaxCostSteps == 2

CondOps == JrCc \cup JpCc \cup CallCc \cup RetCc

\* the opcodes of the programs: the conditional branches, NOP and LD (HL),A
CostOpcodes == CondOps \cup {0, 119}

\* the operand bytes of the programs
OperandBytes == {2, 192}

\* the condition a conditional branch tests on F
CondHolds(f, op) ==
    CASE op \in {32, 194, 196, 192} -> BitAnd(f, ZERO) = 0
      [] op \in {40, 202, 204, 200} -> BitAnd(f, ZERO) # 0
      [] op \in {48, 210, 212, 208} -> BitAnd(f, CARRY) = 0
      [] op \in {56, 218, 220, 216} -> BitAnd(f, CARRY) # 0
      [] OTHER -> FALSE

\* get_immediate_u8 and get_immediate_i8: [m, v]
get_immediate_u8(m, img) ==
    [m |-> [m EXCEPT !.cpu.pc = W16(@ + 1)], v |-> read_byte(m, img, m.cpu.pc)]

\* get_immediate_u16: [m, v]
get_immediate_u16(m, img) ==
    [m |-> [m EXCEPT !.cpu.pc = W16(@ + 2)],
     v |-> read_byte(m, img, W16(m.cpu.pc + 1)) * 256
             + read_byte(m, img, m.cpu.pc)]

\* the arms of the match in ProcessingUnit::next for the opcodes of SpecCost
ExecCost(m, img, op) ==
    CASE op \in JrCc ->
            LET n == get_immediate_u8(m, img) IN
            IF CondHolds(m.cpu.f, op)
            THEN [n.m EXCEPT !.cpu.pc = W16(@ + SignExtend(n.v))]
            ELSE n.m
      [] op \in JpCc ->
            LET nn == get_immediate_u16(m, img) IN
            IF CondHolds(m.cpu.f, op)
            THEN [nn.m EXCEPT !.cpu.pc = nn.v]
            ELSE nn.m
      [] op \in CallCc ->
            LET nn == get_immediate_u16(m, img) IN
            IF CondHolds(m.cpu.f, op) THEN call(nn.m, nn.v) ELSE nn.m
      [] op \in RetCc ->
            IF CondHolds(m.cpu.f, op) THEN ret(m, img) ELSE m
      [] op = 119 -> write_byte(m, get_hl(m.cpu), m.cpu.a)
      [] OTHER -> m

\* the addresses the instruction at pc reads besides its opcode
OperandAddrs(m, pc, op) ==
    CASE op \in JrCc -> {W16(pc + 1)}
      [] op \in JpCc \cup CallCc -> {W16(pc + 1), W16(pc + 2)}
      [] op \in RetCc -> {m.cpu.sp, W16(m.cpu.sp + 1)}
      [] OTHER -> {}

\* ProcessingUnit::next with nothing pending and the CPU running: the set of
\* outcomes [m, image, elapsed, opcode] over the bytes not read before
CostNext(m, img) ==
    LET pc == m.cpu.pc
        m2 == [m EXCEPT !.cpu.pc = W16(pc + 1)]
    IN UNION { UNION { { [m |-> ExecCost(m2, i2, read_byte(m2, i1, pc)),
                          image |-> i3,
                          opcode |-> read_byte(m2, i1, pc),
                          elapsed |->
                              lookup_op_code_for_pc(
                                  ExecCost(m2, i2, read_byte(m2, i1, pc)),
                                  i3, pc)] :
                         i3 \in Reveal(i2,
                                   CellsOf(ExecCost(m2, i2,
                                                    read_byte(m2, i1, pc)),
                                           {pc}),
                                   CostOpcodes) } :
                   i2 \in Reveal(i1,
                             CellsOf(m2, OperandAddrs(m2, pc,
                                                      read_byte(m2, i1, pc))),
                             OperandBytes) } :
           i1 \in Reveal(img, CellsOf(m2, {pc}), CostOpcodes) }

\* the machines the programs start on: [cpu, bus]
\* a cartridge program at 0x0100 with Z and C both clear or both set
FromCartridge ==
    { [cpu |-> [skip_boot_rom(ProcessingUnit_new) EXCEPT !.f = f],
       bus |-> BootDone.bus] : f \in {0, ZERO + CARRY} }

\* a program copied to work RAM: LD (HL),A at 0xc000 with HL = 0xc000 and
\* A = 0xc4, the opcode of CALL NZ
FromWorkRam ==
    [cpu |-> [skip_boot_rom(ProcessingUnit_new) EXCEPT
                 !.pc = 49152, !.h = 192, !.l = 0, !.a = 196],
     bus |-> write_byte([cpu |-> ProcessingUnit_new, bus |-> BootDone.bus,
                         ppu |-> BootDone.ppu, aborted |-> FALSE],
                        49152, 119).bus]

\* a program in bank 1 of an MBC1 cartridge of four banks, at 0x4000 with
\* HL = 0x2000 and A = 2
FromBank1 ==
    [cpu |-> [skip_boot_rom(ProcessingUnit_new) EXCEPT
                 !.pc = 16384, !.h = 32, !.l = 0, !.a = 2],
     bus |-> write_byte(
                 write_byte([cpu |-> ProcessingUnit_new,
                             bus |-> MemoryBus_new("MBC1", 65536),
                             ppu |-> GPU_new, aborted |-> FALSE], 65360, 1),
                 8192, 1).bus]

\* the boot ROM at 0x00fc with HL = 0xff50 and A = 1
FromBootRom ==
    [cpu |-> [ProcessingUnit_new EXCEPT
                 !.pc = 252, !.h = 255, !.l = 80, !.a = 1],
     bus |-> MemoryBus_new("NoMBC", 32768)]

InitCost ==
    /\ \E s \in FromCartridge \cup {FromWorkRam, FromBank1, FromBootRom} :
          cpu = s.cpu /\ bus = s.bus
    /\ ppu = GPU_new
    /\ joypad = Joypad_default
    /\ image = Empty
    /\ steps = 0
    /\ hist = NoHist
    /\ last = NoLast
    /\ cart = NoCart
    /\ audio = NoAudio
    /\ apu = NoApu

\* one CPU step; last.pre is the machine it started from
CostStep ==
    /\ steps < MaxCostSteps
    /\ \E o \in CostNext(Machine, image) :
          /\ o.elapsed >= 0 /\ ~o.m.aborted
          /\ cpu' = o.m.cpu
          /\ bus' = o.m.bus
          /\ ppu' = o.m.ppu
          /\ image' = o.image
          /\ last' = [NoLast EXCEPT !.op = "step", !.opcode = o.opcode,
                                    !.elapsed = o.elapsed, !.executed = TRUE,
                                    !.pre = Machine]
    /\ steps' = steps + 1
    /\ UNCHANGED <<joypad, hist, cart, audio, apu>>

NextCost == CostStep

SpecCost == InitCost /\ [][NextCost]_vars

\* the machine a step started from with Z and C inverted in F
OtherWay(m) ==
    [m EXCEPT !.cpu.f = BitAnd(@, 255 - ZERO - CARRY)
                          + (ZERO + CARRY - BitAnd(@, ZERO + CARRY))]

\* the counts the step returns for the same instruction in the same machine
\* when the condition does not hold
NotTakenCounts ==
    {o.elapsed : o \in CostNext(OtherWay(last.pre), image)}

\* C33: a conditional JR, JP, CALL or RET returns a strictly larger count
\* when taken than the same instruction returns when not taken, and every
\* other opcode returns one fixed count.
C33_TakenCostsMore ==
    last.op = "step" =>
        IF last.opcode \in CondOps
        THEN CondHolds(last.pre.cpu.f, last.opcode) =>
                \A n \in NotTakenCounts : last.elapsed > n
        ELSE last.elapsed = lookup_op_code(last.opcode)

\* JP NZ,nn taken from the cartridge: the step returns the count it returns
\* when the jump is not taken
C33_TakenCostsTheSame ==
    /\ last.op = "step" /\ last.opcode = 194
    /\ CondHolds(last.pre.cpu.f, 194)
    /\ last.pre.cpu.pc = EntryPoint
    /\ cpu.pc \notin {EntryPoint + 3}
    /\ NotTakenCounts = {last.elapsed}

\* C37: the count a step returns is the cost of the opcode it fetched and
\* executed
C37_CostOfExecutedOpcode ==
    last.op = "step" => last.elapsed = lookup_op_code(last.opcode)

\* the store that is the last instruction of the boot ROM's work, LD (HL),A to
\* 0xff50 below 0x0100: the count is that of the cartridge's byte at its
\* address, here the 12 of a CALL NZ
C37_CostOfAnotherOpcode ==
    /\ last.op = "step" /\ last.opcode = 119
    /\ last.pre.cpu.pc = 252
    /\ ~last.pre.bus.boot_rom_disabled /\ bus.boot_rom_disabled
    /\ last.elapsed = lookup_op_code(196)
    /\ last.elapsed # lookup_op_code(119)

(***************************************************************************)
(* Sprites of a line, under SpecSprite: two sprites on line 0 whose tile   *)
(* rows the program has stored, and the sprite pixel of each x.            *)
(***************************************************************************)
\* the pixels of the line SpecSprite asks for, and how many of them in a
\* behaviour
MaxPixel == 19

MaxSpriteOps == 1

\* LcdControl::obj_size
obj_size(p) == IF BitAnd(p.lcdc, 4) # 0 THEN 16 ELSE 8

\* the loop of populate_sprites_to_render from sprite i on: the sprites
\* (sprite_x, sprite_y, i) that cover the line, at most 10, in OAM order
RECURSIVE OnLine(_, _, _, _)
OnLine(p, line, i, acc) ==
    IF i >= 40 \/ Len(acc) >= 10 THEN acc
    ELSE LET addr == 65024 + i * 4
             sprite_y == read_vram(p, addr) - 16
             sprite_x == read_vram(p, addr + 1) - 8
         IN IF line < sprite_y \/ line >= sprite_y + obj_size(p)
            THEN OnLine(p, line, i + 1, acc)
            ELSE OnLine(p, line, i + 1,
                        Append(acc, <<sprite_x, sprite_y, i>>))

\* sort_by on sprite_x, a stable sort: e goes behind the sprites of s that
\* have the same x
RECURSIVE InsertByX(_, _)
InsertByX(s, e) ==
    IF s = << >> THEN <<e>>
    ELSE IF e[1] < Head(s)[1] THEN <<e>> \o s
         ELSE <<Head(s)>> \o InsertByX(Tail(s), e)

RECURSIVE SortByX(_, _)
SortByX(s, acc) ==
    IF s = << >> THEN acc ELSE SortByX(Tail(s), InsertByX(acc, Head(s)))

\* GPU::populate_sprites_to_render
populate_sprites_to_render(p, line) == SortByX(OnLine(p, line, 0, << >>), << >>)

\* the colour id of the sprite's pixel at column tile_x of its row on line y
\* (the tile address, the two bytes of the row and the bit of the column)
SpriteColor(p, s, tile_x, y) ==
    LET addr == 65024 + s[3] * 4
        tile_num == BitAnd(read_vram(p, addr + 2),
                           IF obj_size(p) = 16 THEN 254 ELSE 255)
        flags == read_vram(p, addr + 3)
        tile_y == IF BitAnd(flags, 64) # 0
                  THEN (obj_size(p) - 1) - (y - s[2]) ELSE y - s[2]
        tile_addr == 32768 + tile_num * 16 + tile_y * 2
        b1 == read_vram(p, tile_addr)
        b2 == read_vram(p, tile_addr + 1)
        x_bit == 2 ^ (IF BitAnd(flags, 32) # 0 THEN tile_x ELSE 7 - tile_x)
    IN (IF BitAnd(b1, x_bit) # 0 THEN 1 ELSE 0)
     + (IF BitAnd(b2, x_bit) # 0 THEN 2 ELSE 0)

\* GPU::draw_sprite_at: the sprite whose pixel is drawn and its colour id, or
\* None (sprite -1); the palette lookup is left out
RECURSIVE draw_sprite_at(_, _, _, _, _)
draw_sprite_at(p, sprites, x, y, bg_color_is_white) ==
    IF sprites = << >> THEN [sprite |-> -1, color |-> 0]
    ELSE LET s == Head(sprites)
             tile_x == x - s[1]
             flags == read_vram(p, 65024 + s[3] * 4 + 3)
             color == SpriteColor(p, s, tile_x, y)
         IN IF tile_x < 0 \/ tile_x > 7
            THEN draw_sprite_at(p, Tail(sprites), x, y, bg_color_is_white)
            ELSE IF y - s[2] > obj_size(p) - 1
            THEN draw_sprite_at(p, Tail(sprites), x, y, bg_color_is_white)
            ELSE IF color = 0 THEN [sprite |-> -1, color |-> 0]
            ELSE IF ~bg_color_is_white /\ BitAnd(flags, 128) # 0
            THEN [sprite |-> -1, color |-> 0]
            ELSE [sprite |-> s[3], color |-> color]

\* the stores of the program: GPU::write_vram for each <<address, value>>
RECURSIVE Stores(_, _)
Stores(p, ws) ==
    IF ws = << >> THEN p
    ELSE Stores(write_vram(p, Head(ws)[1], Head(ws)[2]).ppu, Tail(ws))

\* LCD, sprites and background on (LCDC = 0x93); sprite 0 with tile 0 and
\* sprite 1 with tile 1, both with their top on line 0, no flags; the first
\* row of each tile
InitSprite ==
    /\ \E x0 \in {8, 12} : \E x1 \in {8, 10} :
       \E r0 \in {<<0, 0>>, <<240, 0>>, <<255, 0>>} :
       \E r1 \in {<<255, 0>>, <<15, 255>>, <<0, 0>>} :
          ppu = Stores(GPU_new,
                  << <<65344, 147>>,
                     <<65024, 16>>, <<65025, x0>>, <<65026, 0>>, <<65027, 0>>,
                     <<65028, 16>>, <<65029, x1>>, <<65030, 1>>, <<65031, 0>>,
                     <<32768, r0[1]>>, <<32769, r0[2]>>,
                     <<32784, r1[1]>>, <<32785, r1[2]>> >>)
    /\ cpu = ProcessingUnit_new
    /\ bus = MemoryBus_new("NoMBC", 32768)
    /\ joypad = Joypad_default
    /\ image = Empty
    /\ steps = 0
    /\ hist = NoHist
    /\ last = NoLast
    /\ cart = NoCart
    /\ audio = NoAudio
    /\ apu = NoApu

\* the sprite part of one pixel of render_line_into_buffer on line LY
SpritePixel ==
    /\ steps < MaxSpriteOps
    /\ steps' = steps + 1
    /\ \E x \in 0..MaxPixel : \E bg_color_is_white \in BOOLEAN :
          LET r == draw_sprite_at(ppu, populate_sprites_to_render(ppu, ppu.ly),
                                  x, ppu.ly, bg_color_is_white) IN
          last' = [NoLast EXCEPT !.op = "pixel", !.addr = x,
                                 !.value = r.sprite, !.data = r.color]
    /\ UNCHANGED <<cpu, bus, ppu, joypad, image, hist, cart, audio, apu>>

NextSprite == SpritePixel

SpecSprite == InitSprite /\ [][NextSprite]_vars

\* the sprites of the line that cover x, in priority order
Covering(x) ==
    SelectSeq(populate_sprites_to_render(ppu, ppu.ly),
              LAMBDA s : x - s[1] >= 0 /\ x - s[1] <= 7)

\* those of them whose pixel at x is not transparent
Opaque(x) ==
    SelectSeq(Covering(x),
              LAMBDA s : SpriteColor(ppu, s, x - s[1], ppu.ly) # 0)

\* C34: the sprite pixel shown at x is that of the first sprite, in priority
\* order, among those that cover x and have a non-zero colour id there; none
\* is shown when there is no such sprite.
C34_FirstOpaqueWins ==
    last.op = "pixel" =>
        IF Opaque(last.addr) = << >> THEN last.value = -1
        ELSE /\ last.value = Head(Opaque(last.addr))[3]
             /\ last.data = SpriteColor(ppu, Head(Opaque(last.addr)),
                                        last.addr - Head(Opaque(last.addr))[1],
                                        ppu.ly)

\* sprite 0 and sprite 1 both at x = 0..7; sprite 0 is transparent at pixel 5
\* and sprite 1 is not: no sprite pixel is drawn
C34_TransparentHides ==
    /\ last.op = "pixel" /\ last.addr = 5
    /\ Len(Covering(5)) = 2
    /\ Head(Covering(5))[3] = 0
    /\ SpriteColor(ppu, Head(Covering(5)), 5, ppu.ly) = 0
    /\ Len(Opaque(5)) = 1 /\ Head(Opaque(5))[3] = 1
    /\ last.value = -1

(***************************************************************************)
(* Cartridge accesses that abort, under SpecMbc                            *)
(***************************************************************************)
\* C35: no read or write of the cartridge aborts, whatever the header and
\* the writes before it: every read of 0x0000-0x7fff and 0xa000-0xbfff
\* returns a byte and every write completes.
C35_NoAccessAborts ==
    /\ ~hist.aborted
    /\ last.op = "read" => (last.value >= 0 /\ last.value <= 255)

\* an MBC1 cartridge without RAM (0x149 = 0x00): RAM is enabled and a read of
\* 0xa000 indexes the empty RAM
C35_ReadOfNoRamAborts ==
    /\ hist.aborted
    /\ last.op = "read" /\ last.addr = 40960 /\ last.value = -1
    /\ last.pre.variant = "Mbc1"
    /\ last.pre.ram_on /\ last.pre.ram_len = 0

====
